---------------------------- MODULE Spec2Model ----------------------------
(***************************************************************************)
(* A model of the hydrate-based desalination calculator (src/app.js): the  *)
(* Hu-Lee-Sum correlation engine, the T0(P) reference-curve fits and their *)
(* caches, the 1-D supercooling sweep of the Calculate handler and the     *)
(* 2-D grid sweep of generateParametricHeatmaps.                           *)
(*                                                                         *)
(* Numbers.  The program computes in IEEE doubles; the model computes in   *)
(* decimal fixed point.  A quantity q (wt%, K, MPa, X, ln aw) is the       *)
(* integer round(q * 10^6); beta, which is of order 10^-3, is carried as   *)
(* round(beta * 10^9) so that it keeps six significant digits.  Every      *)
(* product and quotient is rounded to the nearest unit.  The three         *)
(* non-finite doubles are the sentinels NaN, PosInf and NegInf.  The       *)
(* least-squares fit, whose normal equations need more than 32 bits, runs  *)
(* on multi-limb integers at scale 10^12.                                  *)
(***************************************************************************)
EXTENDS Integers, Sequences, FiniteSets, TLC

SCALE == 1000 * 1000
LIMIT == 2000 * SCALE
NaN == LIMIT + 3
PosInf == LIMIT + 1
NegInf == 0 - PosInf

Abs(a) == IF a < 0 THEN -a ELSE a
Sgn(a) == IF a < 0 THEN -1 ELSE 1
isNaN(a) == a = NaN
isFinite(a) == a > -LIMIT /\ a < LIMIT

(***************************************************************************)
(* Finite fixed-point arithmetic on 32-bit integers.                       *)
(***************************************************************************)
\* round(a*b / 10^6) for 0 <= a, b < 10^9, without forming a*b
MulAbs(a, b) ==
  LET a1 == a \div 1000
      a0 == a % 1000
      b1 == b \div 1000
      b0 == b % 1000
      m  == a1 * b0 + a0 * b1
  IN  a1 * b1 + (m \div 1000)
        + (((m % 1000) * 1000 + a0 * b0 + 500000) \div SCALE)
Mul(a, b) == Sgn(a) * Sgn(b) * MulAbs(Abs(a), Abs(b))

\* <<floor(r * 10^k / b), remainder>> for 0 <= r < b < 2^31 / 10
RECURSIVE DivDigits(_, _, _)
DivDigits(r, b, k) ==
  IF k = 0 THEN <<0, r>>
  ELSE LET t    == r * 10
           rest == DivDigits(t % b, b, k - 1)
       IN  <<(t \div b) * (10 ^ (k - 1)) + rest[1], rest[2]>>
\* round(a * 10^6 / b) for a >= 0, 0 < b < 2^31 / 10
DivAbs(a, b) ==
  LET f == DivDigits(a % b, b, 6)
  IN  (a \div b) * SCALE + f[1] + (IF 2 * f[2] >= b THEN 1 ELSE 0)
Div(a, b) == Sgn(a) * Sgn(b) * DivAbs(Abs(a), Abs(b))

\* round(a*b / c) for 0 <= a, b < 10^9, 0 < c < 2^31 / 10: the product is
\* formed in base-1000 limbs and divided digit by digit
Limbs3(a) == <<a % 1000, (a \div 1000) % 1000, a \div SCALE>>
RECURSIVE Carry1000(_, _, _)
Carry1000(cols, k, c) ==
  IF k > Len(cols) THEN IF c = 0 THEN <<>> ELSE <<c>>
  ELSE <<(cols[k] + c) % 1000>> \o Carry1000(cols, k + 1, (cols[k] + c) \div 1000)
Product1000(a, b) ==
  LET x == Limbs3(a)
      y == Limbs3(b)
  IN  Carry1000(<<x[1] * y[1],
                  x[1] * y[2] + x[2] * y[1],
                  x[1] * y[3] + x[2] * y[2] + x[3] * y[1],
                  x[2] * y[3] + x[3] * y[2],
                  x[3] * y[3]>>, 1, 0)
\* the decimal digits of a base-1000 limb, most significant first
Digits3(l) == <<l \div 100, (l \div 10) % 10, l % 10>>
RECURSIVE LongDiv(_, _, _, _, _)
LongDiv(p, k, c, q, r) ==
  IF k = 0 THEN q + (IF 2 * r >= c THEN 1 ELSE 0)
  ELSE LET d  == Digits3(p[k])
           r1 == r * 10 + d[1]
           r2 == (r1 % c) * 10 + d[2]
           r3 == (r2 % c) * 10 + d[3]
       IN  LongDiv(p, k - 1, c,
                   q * 1000 + (r1 \div c) * 100 + (r2 \div c) * 10 + (r3 \div c),
                   r3 % c)
LongDivAll(p, c) == LongDiv(p, Len(p), c, 0, 0)
MulDivAbs(a, b, c) == LongDivAll(Product1000(a, b), c)
MulDiv(a, b, c) == Sgn(a) * Sgn(b) * Sgn(c) * MulDivAbs(Abs(a), Abs(b), Abs(c))

\* round(a*b / 10^9): a product of a 10^-9-scaled and a 10^-6-scaled number,
\* delivered at scale 10^-6
NanoRound(p) ==
  LET l(k) == IF k <= Len(p) THEN p[k] ELSE 0
  IN  l(4) + 1000 * l(5) + SCALE * l(6) + (IF l(3) >= 500 THEN 1 ELSE 0)
MulN(a, b) == Sgn(a) * Sgn(b) * NanoRound(Product1000(Abs(a), Abs(b)))

(***************************************************************************)
(* Loops.  A loop of the source that runs a body n times over some running *)
(* state is Iterate(body, state, n).  The run is split in halves so that   *)
(* the nesting of the evaluation grows with log n rather than n; Then      *)
(* finishes the first half before the second starts.  With(v, F) is F(x)   *)
(* for x the value of v: a local of the source, assigned once and read     *)
(* many times.                                                             *)
(***************************************************************************)
Then(v, e) == IF v = v THEN e ELSE e
With(v, F(_)) == CHOOSE r \in {F(x) : x \in {v}} : TRUE
RECURSIVE Iterate(_, _, _)
Iterate(F(_), x, n) ==
  IF n <= 0 THEN x
  ELSE IF n = 1 THEN F(x)
  ELSE LET h == n \div 2
           y == Iterate(F, x, h)
       IN  Then(y, Iterate(F, y, n - h))
\* <<F(lo), ..., F(hi)>>, each element computed once
RECURSIVE TabRange(_, _, _)
TabRange(F(_), lo, hi) ==
  IF lo > hi THEN <<>>
  ELSE IF lo = hi THEN <<F(lo)>>
  ELSE LET mid == (lo + hi) \div 2
           left == TabRange(F, lo, mid)
       IN  Then(left, left \o TabRange(F, mid + 1, hi))
Tab(F(_), n) == TabRange(F, 1, n)
Max2(a, b) == IF a >= b THEN a ELSE b
Min2(a, b) == IF a <= b THEN a ELSE b

(***************************************************************************)
(* Multi-limb arithmetic for the least-squares fit.  A magnitude is a      *)
(* little-endian sequence of base-10^4 limbs without leading zero limbs;   *)
(* a wide number is [neg, mag] and stands for +-mag / 10^12.  Products and *)
(* quotients are truncated toward zero.                                    *)
(***************************************************************************)
BB == 100 * 100
Limb(m, i) == IF i <= Len(m) THEN m[i] ELSE 0
MTrim(m) ==
  LET nz == {k \in 1..Len(m) : m[k] # 0}
  IN  IF nz = {} THEN <<>>
      ELSE SubSeq(m, 1, CHOOSE k \in nz : \A j \in nz : j <= k)
MFromInt(a) == MTrim(<<a % BB, (a \div BB) % BB, a \div (BB * BB)>>)
MToInt(m) == Limb(m, 1) + BB * Limb(m, 2) + BB * BB * Limb(m, 3)
MAddLimb(a, b, s) ==
  LET t == Limb(a, s.i) + Limb(b, s.i) + s.c
  IN  [i |-> s.i + 1, c |-> t \div BB, out |-> Append(s.out, t % BB)]
MAdd(a, b) ==
  MTrim(Iterate(LAMBDA s : MAddLimb(a, b, s), [i |-> 1, c |-> 0, out |-> <<>>],
                Max2(Len(a), Len(b)) + 1).out)
\* a - b for a >= b
MSubLimb(a, b, s) ==
  LET t == Limb(a, s.i) - Limb(b, s.i) - s.c
  IN  [i |-> s.i + 1, c |-> IF t < 0 THEN 1 ELSE 0,
       out |-> Append(s.out, IF t < 0 THEN t + BB ELSE t)]
MSub(a, b) ==
  MTrim(Iterate(LAMBDA s : MSubLimb(a, b, s), [i |-> 1, c |-> 0, out |-> <<>>],
                Len(a)).out)
\* -1, 0 or 1 as a < b, a = b or a > b
MCmp(a, b) ==
  IF Len(a) < Len(b) THEN -1
  ELSE IF Len(a) > Len(b) THEN 1
  ELSE LET diff == {k \in 1..Len(a) : a[k] # b[k]}
       IN  IF diff = {} THEN 0
           ELSE LET k == CHOOSE i \in diff : \A j \in diff : j <= i
                IN  IF a[k] < b[k] THEN -1 ELSE 1
\* the k-th column of the schoolbook product: the sum of a[i] * b[k + 1 - i]
MColumn(a, b, k) ==
  Iterate(LAMBDA s : [i |-> s.i + 1, sum |-> s.sum + a[s.i] * b[k + 1 - s.i]],
          [i |-> Max2(1, k + 1 - Len(b)), sum |-> 0],
          Min2(Len(a), k) - Max2(1, k + 1 - Len(b)) + 1).sum
MCarry(a, b, s) ==
  With(MColumn(a, b, s.k) + s.c,
       LAMBDA t : [k |-> s.k + 1, c |-> t \div BB, out |-> Append(s.out, t % BB)])
MMul(a, b) ==
  IF Len(a) = 0 \/ Len(b) = 0 THEN <<>>
  ELSE With(Iterate(LAMBDA s : MCarry(a, b, s), [k |-> 1, c |-> 0, out |-> <<>>],
                    Len(a) + Len(b) - 1),
            LAMBDA s : MTrim(Append(s.out, s.c)))
MShl(m, k) == IF Len(m) = 0 THEN <<>> ELSE [i \in 1..k |-> 0] \o m
MShr(m, k) == IF Len(m) <= k THEN <<>> ELSE SubSeq(m, k + 1, Len(m))
\* The quotient limb floor(r / b) for b <= r < b * 10^4.  It is estimated from
\* the leading limbs of r and b (the top two limbs of b, the limbs of r above
\* them), which is at most a few units off, and then fixed by trial.
MQuotEstimate(r, b) ==
  LET n  == Len(b)
      bt == IF n >= 2 THEN b[n] * BB + b[n - 1] ELSE b[n]
      lo == IF n >= 2 THEN Limb(r, n - 1) ELSE Limb(r, n)
      hi == IF n >= 2 THEN Limb(r, n + 1) * BB + Limb(r, n) ELSE Limb(r, n + 1)
      d  == <<lo \div 1000, (lo \div 100) % 10, (lo \div 10) % 10, lo % 10>>
      r1 == (hi % bt) * 10 + d[1]
      r2 == (r1 % bt) * 10 + d[2]
      r3 == (r2 % bt) * 10 + d[3]
      r4 == (r3 % bt) * 10 + d[4]
  IN  (hi \div bt) * BB + (r1 \div bt) * 1000 + (r2 \div bt) * 100
        + (r3 \div bt) * 10 + (r4 \div bt)
MQuotFits(r, b, q) == MCmp(MMul(b, <<q>>), r) <= 0
MQuot(r, b) ==
  With(MQuotEstimate(r, b),
       LAMBDA e : CHOOSE q \in Max2(1, e - 4)..Min2(BB - 1, e + 1) :
                    MQuotFits(r, b, q) /\ ~MQuotFits(r, b, q + 1))
\* floor(a / b) for b > 0: long division, one quotient limb per limb of a
MDivLimb(a, b, s) ==
  With(MTrim(<<a[s.k]>> \o s.r),
       LAMBDA r1 :
         IF MCmp(r1, b) < 0 THEN [k |-> s.k - 1, r |-> r1, q |-> <<0>> \o s.q]
         ELSE With(MQuot(r1, b),
                   LAMBDA q : [k |-> s.k - 1, r |-> MSub(r1, MMul(b, <<q>>)),
                               q |-> <<q>> \o s.q]))
MDiv(a, b) ==
  MTrim(Iterate(LAMBDA s : MDivLimb(a, b, s), [k |-> Len(a), r |-> <<>>, q |-> <<>>],
                Len(a)).q)

Wide(n, m) == [neg |-> n /\ Len(m) > 0, mag |-> m]
WZero == Wide(FALSE, <<>>)
WOne == Wide(FALSE, <<0, 0, 0, 1>>)
WTiny == Wide(FALSE, <<1>>)
WIsZero(a) == Len(a.mag) = 0
WNeg(a) == Wide(~a.neg, a.mag)
WAdd(a, b) ==
  IF a.neg = b.neg THEN Wide(a.neg, MAdd(a.mag, b.mag))
  ELSE IF MCmp(a.mag, b.mag) >= 0 THEN Wide(a.neg, MSub(a.mag, b.mag))
  ELSE Wide(b.neg, MSub(b.mag, a.mag))
WSub(a, b) == WAdd(a, WNeg(b))
WMul(a, b) == Wide(a.neg # b.neg, MShr(MMul(a.mag, b.mag), 3))
WDiv(a, b) == Wide(a.neg # b.neg, MDiv(MShl(a.mag, 3), b.mag))
WAbsGt(a, b) == MCmp(a.mag, b.mag) > 0
\* a 10^-6-scaled integer as a wide number, and back (truncating)
WFromMicro(x) == Wide(x < 0, MMul(MFromInt(Abs(x)), <<0, 100>>))
WToMicro(a) == (IF a.neg THEN -1 ELSE 1) * MToInt(MDiv(a.mag, <<0, 100>>))

(***************************************************************************)
(* Program constants.                                                      *)
(***************************************************************************)
B1 == -1061520
B2 == 3257260
B3 == -37226300
WATER_MOLAR_MASS == 18015280
ALPHA_SII == 927000
nPoints == 50

saltProps ==
  [NaCl  |-> [molarMass |-> 58440000, ionCount |-> 2],
   KCl   |-> [molarMass |-> 74550000, ionCount |-> 2],
   MgCl2 |-> [molarMass |-> 95210000, ionCount |-> 3]]
SaltKeys == DOMAIN saltProps

\* data: <<T (K), P (MPa)>> pairs; betaX is the source's beta x 10^3
gasData ==
  [CH4 |-> [structure |-> "sI", betaX |-> -911500, data |->
      << <<273400000, 2680000>>, <<274600000, 3050000>>, <<276700000, 3720000>>,
         <<278300000, 4390000>>, <<279600000, 5020000>>, <<280900000, 5770000>>,
         <<282300000, 6650000>>, <<283600000, 7590000>>, <<284700000, 8550000>>,
         <<285700000, 9170000>>, <<286400000, 10500000>> >>],
   C2H6 |-> [structure |-> "sI", betaX |-> -865700, data |->
      << <<273705556, 510212>>, <<274816667, 579160>>, <<275927778, 661897>>,
         <<277594444, 813581>>, <<278705556, 930792>>, <<279261111, 1006635>>,
         <<279816667, 1082477>>, <<280372222, 1165214>>, <<280927778, 1254846>>,
         <<281483333, 1344478>>, <<282038889, 1447899>>, <<282594444, 1558215>>,
         <<283150000, 1689216>>, <<284261111, 1985690>>, <<285372222, 2302849>>,
         <<286483333, 2730324>> >>],
   C3H8 |-> [structure |-> "sII", betaX |-> -1058200, data |->
      << <<273600000, 207000>>, <<274600000, 248000>>, <<276200000, 338000>>,
         <<277200000, 417000>>, <<278000000, 510000>> >>],
   CO2 |-> [structure |-> "sI", betaX |-> -914300, data |->
      << <<274300000, 1420000>>, <<275500000, 1630000>>, <<276800000, 1900000>>,
         <<277600000, 2110000>>, <<279100000, 2550000>>, <<280600000, 3120000>>,
         <<281500000, 3510000>>, <<282100000, 3810000>>, <<282900000, 4370000>> >>],
   CP |-> [structure |-> "sII", betaX |-> -1242600, t0_atm |-> 280150000,
           data |-> <<>>]]
BuiltinGasKeys == DOMAIN gasData
GasKeys == BuiltinGasKeys \cup {"Custom"}

(***************************************************************************)
(* The least-squares polynomial fit of T0(P): normal equations from the    *)
(* power sums, solved by Gauss-Jordan elimination with partial pivoting.   *)
(***************************************************************************)
\* <<1, x, x^2, ..., x^m>> by the running product xp *= x
WPowers(x, m) == Iterate(LAMBDA p : Append(p, WMul(p[Len(p)], x)), <<WOne>>, m)
\* f[1] + ... + f[k], added from the left
WSum(f, k) ==
  Iterate(LAMBDA s : [i |-> s.i + 1, sum |-> WAdd(s.sum, f[s.i])],
          [i |-> 1, sum |-> WZero], k).sum
\* the row in i..d whose entry in column i is largest in magnitude, the first
\* such row on ties (rows and columns are numbered from 1 here, from 0 in the
\* source)
MaxRow(A, i, d) ==
  Iterate(LAMBDA s : [r |-> s.r + 1,
                      best |-> IF WAbsGt(A[s.r][i], A[s.best][i]) THEN s.r ELSE s.best],
          [r |-> i + 1, best |-> i], d - i).best
\* one pass of the elimination loop: pivot on column i of the system [A | c]
Eliminate(s, d) ==
  With(MaxRow(s.A, s.i, d), LAMBDA maxRow :
  With([r \in 1..d |-> IF r = s.i THEN maxRow ELSE IF r = maxRow THEN s.i ELSE r],
       LAMBDA swap :
  With([A |-> Tab(LAMBDA r : s.A[swap[r]], d), c |-> Tab(LAMBDA r : s.c[swap[r]], d)],
       LAMBDA s1 :
  With(IF WIsZero(s1.A[s.i][s.i]) THEN WTiny ELSE s1.A[s.i][s.i], LAMBDA pivot :
  With([c |-> WDiv(s1.c[s.i], pivot),
        row |-> Tab(LAMBDA j : IF j >= s.i THEN WDiv(s1.A[s.i][j], pivot)
                               ELSE s1.A[s.i][j], d)],
       LAMBDA p :
    [i |-> s.i + 1,
     A |-> Tab(LAMBDA r :
                 IF r = s.i THEN p.row
                 ELSE Tab(LAMBDA j :
                            IF j >= s.i
                            THEN WSub(s1.A[r][j], WMul(s1.A[r][s.i], p.row[j]))
                            ELSE s1.A[r][j], d), d),
     c |-> Tab(LAMBDA r :
                 IF r = s.i THEN p.c
                 ELSE WSub(s1.c[r], WMul(s1.A[r][s.i], p.c)), d)])))))
\* the coefficients c0..cd (at indices 1..d+1) of the least-squares polynomial
\* of degree min(degree, n - 1) through the points (xs[k], ys[k])
fitPolynomial(xs, ys, degree) ==
  With(Len(xs), LAMBDA n :
  With(Min2(degree, n - 1), LAMBDA d :
  With([pw |-> Tab(LAMBDA k : WPowers(WFromMicro(xs[k]), 2 * d), n),
        Y |-> Tab(LAMBDA k : WFromMicro(ys[k]), n)],
       LAMBDA t :
  With(Tab(LAMBDA i : WSum(Tab(LAMBDA k : t.pw[k][i], n), n), 2 * d + 1), LAMBDA S :
  With([i |-> 1,
        A |-> Tab(LAMBDA i : Tab(LAMBDA j : S[i + j - 1], d + 1), d + 1),
        c |-> Tab(LAMBDA i : WSum(Tab(LAMBDA k : WMul(t.Y[k], t.pw[k][i]), n), n),
                  d + 1)],
       LAMBDA system :
    Iterate(LAMBDA s : Eliminate(s, d + 1), system, d + 1).c)))))
evalPolynomialTerm(coeffs, x, s) ==
  [i |-> s.i + 1, y |-> WAdd(s.y, WMul(coeffs[s.i], s.xp)), xp |-> WMul(s.xp, x)]
evalPolynomial(coeffs, x) ==
  With(WFromMicro(x), LAMBDA wx :
    WToMicro(Iterate(LAMBDA s : evalPolynomialTerm(coeffs, wx, s),
                     [i |-> 1, y |-> WZero, xp |-> WOne], Len(coeffs)).y))

(***************************************************************************)
(* JavaScript numbers: arithmetic and comparisons that follow the IEEE     *)
(* rules for NaN, the infinities and division by zero.  A comparison with  *)
(* NaN is false.  The model's inputs keep finite results below LIMIT.      *)
(***************************************************************************)
Inf(sign) == IF sign > 0 THEN PosInf ELSE NegInf
Sign(a) == IF a > 0 THEN 1 ELSE IF a < 0 THEN -1 ELSE 0
FNeg(a) == IF isNaN(a) THEN NaN ELSE -a
FAdd(a, b) ==
  IF isNaN(a) \/ isNaN(b) THEN NaN
  ELSE IF isFinite(a) /\ isFinite(b) THEN a + b
  ELSE IF ~isFinite(a) /\ ~isFinite(b) THEN IF a = b THEN a ELSE NaN
  ELSE IF isFinite(a) THEN b ELSE a
FSub(a, b) == FAdd(a, FNeg(b))
FMul(a, b) ==
  IF isNaN(a) \/ isNaN(b) THEN NaN
  ELSE IF isFinite(a) /\ isFinite(b) THEN Mul(a, b)
  ELSE IF a = 0 \/ b = 0 THEN NaN
  ELSE Inf(Sign(a) * Sign(b))
FDiv(a, b) ==
  IF isNaN(a) \/ isNaN(b) THEN NaN
  ELSE IF isFinite(a) /\ isFinite(b)
    THEN IF b # 0 THEN Div(a, b) ELSE IF a = 0 THEN NaN ELSE Inf(Sign(a))
  ELSE IF ~isFinite(a) /\ ~isFinite(b) THEN NaN
  ELSE IF isFinite(a) THEN 0
  ELSE Inf(Sign(a) * (IF b < 0 THEN -1 ELSE 1))
FLt(a, b) == ~isNaN(a) /\ ~isNaN(b) /\ a < b
FLe(a, b) == ~isNaN(a) /\ ~isNaN(b) /\ a <= b
FGt(a, b) == FLt(b, a)
FGe(a, b) == FLe(b, a)
MathMax(a, b) == IF isNaN(a) \/ isNaN(b) THEN NaN ELSE IF a >= b THEN a ELSE b
MathMin(a, b) == IF isNaN(a) \/ isNaN(b) THEN NaN ELSE IF a <= b THEN a ELSE b
\* a / 1e-12 for a multiple a of 10^-6: zero, or a quotient of magnitude 10^6
\* and more, which is beyond the range carried here and saturates to the
\* infinity of its sign (the callers clamp it to [0, 1])
DivTiny(a) == IF isNaN(a) THEN NaN ELSE IF a = 0 THEN 0 ELSE Inf(Sign(a))

\* The content of a text input: the decimal text of a number, or text that
\* is no number ("" for an empty field).
Num(v) == [text |-> "number", value |-> v]
Blank == [text |-> "", value |-> 0]
Word == [text |-> "abc", value |-> 0]
parseFloat(f) == IF f.text = "number" THEN f.value ELSE NaN

(***************************************************************************)
(* The Hu-Lee-Sum correlation engine.  beta is carried at scale 10^-9.     *)
(***************************************************************************)
computeXFromSalinity(salinity, saltKey) ==
  With([salt  |-> Div(salinity, saltProps[saltKey].molarMass),
        water |-> Div(100 * SCALE - salinity, WATER_MOLAR_MASS)],
       LAMBDA moles :
         IF saltKey = "MgCl2"
         THEN FDiv(4 * moles.salt, moles.water + 3 * moles.salt)
         ELSE FDiv(2 * moles.salt, moles.water + 2 * moles.salt))

computeLnawFromX(X) ==
  IF ~isFinite(X) THEN NaN
  ELSE Mul(B1, X) + Mul(Mul(B2, X), X) + Mul(Mul(Mul(B3, X), X), X)

\* (beta * lnaw * T0 * T0) / (1 + beta * lnaw * T0)
computeDeltaT(beta, lnaw, T0) ==
  IF ~isFinite(beta) \/ ~isFinite(lnaw) \/ ~isFinite(T0) THEN NaN
  ELSE With(Mul(Mul(beta, lnaw), T0),
            LAMBDA blT : FDiv(MulN(blT, T0),
                              SCALE + Sgn(blT) * ((Abs(blT) + 500) \div 1000)))

\* dT / (beta * T0 * (T0 - dT))
computeLnawFromDelta(beta, dT, T0) ==
  IF ~isFinite(beta) \/ ~isFinite(dT) \/ ~isFinite(T0) THEN NaN
  ELSE FDiv(dT, MulN(Mul(beta, T0), T0 - dT))

\* The bracket grows by 0.1 while f(high) > 0 and high < 1.  The doubles
\* 0.2 + 0.1 + ... pass through 0.9999999999999999, which is still below 1,
\* so the last bracket is 1.1: in exact decimals the test is high <= 1.
\* a bracket that grows for as long as f(high) > 0
ExpandsUnbounded(high) == TRUE
ExpandsBelowOne(high) == high <= SCALE
solveXExpand(lnawTarget, high) ==
  IF computeLnawFromX(high) - lnawTarget > 0 /\ ExpandsBelowOne(high)
  THEN high + SCALE \div 10 ELSE high
solveXBisect(lnawTarget, b) ==
  With((b.low + b.high) \div 2,
       LAMBDA mid : IF computeLnawFromX(mid) - lnawTarget > 0
                    THEN [low |-> mid, high |-> b.high]
                    ELSE [low |-> b.low, high |-> mid])
\* for (let i = 0; i < 50; i++)
Bisections == 50
solveXFromLnaw(lnawTarget) ==
  With(Iterate(LAMBDA c : solveXBisect(lnawTarget, c),
               [low |-> 0,
                high |-> Iterate(LAMBDA h : solveXExpand(lnawTarget, h), SCALE \div 5, 9)],
               Bisections),
       LAMBDA b : (b.low + b.high) \div 2)

\* a conversion that falls as X grows
SalinityFallingInX(X, saltKey) == 100 * SCALE - Mul(50 * SCALE, X)
computeSalinityFromX(X, saltKey) ==
  With(Mul(saltProps[saltKey].molarMass, X), LAMBDA mx :
  With(IF saltKey = "MgCl2"
       THEN Mul(4 * SCALE - 3 * X, WATER_MOLAR_MASS) + mx
       ELSE Mul(2 * SCALE - 2 * X, WATER_MOLAR_MASS) + mx,
       LAMBDA den : IF den = 0 THEN (IF mx = 0 THEN NaN ELSE Inf(Sign(mx)))
                    ELSE MulDiv(mx, 100 * SCALE, den)))

\* The two conversions at the resolution of the wide numbers (10^-12), for
\* arguments and results that are compared to more than six decimals.
WideOf(units) == WFromMicro(units * SCALE)
computeXFromSalinityWide(salinity, saltKey) ==
  With([salt  |-> WDiv(salinity, WFromMicro(saltProps[saltKey].molarMass)),
        water |-> WDiv(WSub(WideOf(100), salinity), WFromMicro(WATER_MOLAR_MASS))],
       LAMBDA moles :
         IF saltKey = "MgCl2"
         THEN WDiv(WMul(WideOf(4), moles.salt),
                   WAdd(moles.water, WMul(WideOf(3), moles.salt)))
         ELSE WDiv(WMul(WideOf(2), moles.salt),
                   WAdd(moles.water, WMul(WideOf(2), moles.salt))))
\* an inverse with the coefficients of the 1:1 salts for every salt
OneToOneCoefficients(saltKey) == [whole |-> 2, perX |-> 2]
\* (4 - 3 * X) for MgCl2, (2 - 2 * X) for NaCl and KCl
InverseCoefficients(saltKey) ==
  IF saltKey = "MgCl2" THEN [whole |-> 4, perX |-> 3] ELSE [whole |-> 2, perX |-> 2]
computeSalinityFromXWide(X, saltKey) ==
  With(WMul(WFromMicro(saltProps[saltKey].molarMass), X), LAMBDA mx :
  With(InverseCoefficients(saltKey), LAMBDA k :
    WDiv(WMul(mx, WideOf(100)),
         WAdd(WMul(WSub(WideOf(k.whole), WMul(WideOf(k.perX), X)),
                   WFromMicro(WATER_MOLAR_MASS)),
              mx))))

\* The supercooling and its inverse at the resolution of the wide numbers.
WFromNano(x) == Wide(x < 0, MMul(MFromInt(Abs(x)), <<1000>>))
\* (beta * lnaw * T0 * T0) / (1 + beta * lnaw * T0)
computeDeltaTWide(beta, lnaw, T0) ==
  With(WMul(WMul(beta, lnaw), T0),
       LAMBDA blT : WDiv(WMul(blT, T0), WAdd(WOne, blT)))
\* the denominator of the limit of small supercooling: beta * T0 * T0
SmallDeltaDenominator(beta, dT, T0) == WMul(WMul(beta, T0), T0)
\* beta * T0 * (T0 - dT)
DeltaDenominator(beta, dT, T0) == WMul(WMul(beta, T0), WSub(T0, dT))
\* dT / denominator
computeLnawFromDeltaWide(beta, dT, T0) == WDiv(dT, DeltaDenominator(beta, dT, T0))

\* The activity correlation and the two loops of solveXFromLnaw at the
\* resolution of the wide numbers.
WPositive(a) == ~a.neg /\ ~WIsZero(a)
WTenth == Wide(FALSE, <<0, 0, 1000>>)
WHalf(a) == WMul(a, Wide(FALSE, <<0, 0, 5000>>))
\* B1 * X + B2 * X * X + B3 * X * X * X
computeLnawFromXWide(X) ==
  WAdd(WAdd(WMul(WFromMicro(B1), X), WMul(WMul(WFromMicro(B2), X), X)),
       WMul(WMul(WMul(WFromMicro(B3), X), X), X))
\* a bracket that is never grown
NoExpand(lnawTarget, high) == high
solveXExpandWide(lnawTarget, high) ==
  IF WPositive(WSub(computeLnawFromXWide(high), lnawTarget)) /\ ~WAbsGt(high, WOne)
  THEN WAdd(high, WTenth) ELSE high
solveXBisectWide(lnawTarget, b) ==
  With(WHalf(WAdd(b.low, b.high)),
       LAMBDA mid : IF WPositive(WSub(computeLnawFromXWide(mid), lnawTarget))
                    THEN [low |-> mid, high |-> b.high]
                    ELSE [low |-> b.low, high |-> mid])
solveXFromLnawWide(lnawTarget) ==
  With(Iterate(LAMBDA c : solveXBisectWide(lnawTarget, c),
               [low |-> WZero,
                high |-> Iterate(LAMBDA h : solveXExpandWide(lnawTarget, h),
                                 Wide(FALSE, <<0, 0, 2000>>), 9)],
               Bisections),
       LAMBDA b : WHalf(WAdd(b.low, b.high)))

\* The first pass of the sweep's loop for a range that begins at zero, at
\* the resolution of the wide numbers: ln(a_w) of the initial salinity, the
\* supercooling it stands for, and the way back to a salinity and a yield.
NoStep == [emitted |-> FALSE]
\* a pass that ends at one of the three guards
SkippedStep(X_init) == [emitted |-> FALSE, X_init |-> X_init]
\* a total that leaves the initial supercooling out
ExtraOnly(dT_init_op, dT_extra) == dT_extra
\* dT_total = dT_init_op + dT_extra
TotalSupercooling(dT_init_op, dT_extra) == WAdd(dT_init_op, dT_extra)
\* ((initialWaterG - initialNaClG * (100 / mas - 1)) / initialWaterG) * 100
SweepMwyWide(initialNaClG, initialWaterG, mas) ==
  WMul(WDiv(WSub(initialWaterG,
                 WMul(initialNaClG, WSub(WDiv(WideOf(100), mas), WOne))),
            initialWaterG),
       WideOf(100))
ZeroStepPoint(beta, T0_op, initialSalinity, saltKey) ==
  With(computeXFromSalinityWide(initialSalinity, saltKey), LAMBDA X_init :
  With(computeLnawFromXWide(X_init), LAMBDA lnaw_init :
  With(TotalSupercooling(computeDeltaTWide(beta, lnaw_init, T0_op), WZero),
       LAMBDA dT_total :
    IF ~WPositive(WSub(T0_op, dT_total)) THEN SkippedStep(X_init)
    ELSE With(computeLnawFromDeltaWide(beta, dT_total, T0_op), LAMBDA lnawMas :
      IF ~lnawMas.neg THEN SkippedStep(X_init)
      ELSE With(solveXFromLnawWide(lnawMas), LAMBDA X_mas :
           With(computeSalinityFromXWide(X_mas, saltKey), LAMBDA mas :
             IF ~WPositive(mas) THEN SkippedStep(X_init)
             ELSE [emitted |-> TRUE, X_init |-> X_init, lnaw_init |-> lnaw_init,
                   dT_total |-> dT_total, lnawMas |-> lnawMas, X_mas |-> X_mas,
                   mas |-> mas,
                   mwy |-> SweepMwyWide(initialSalinity,
                                        WSub(WideOf(100), initialSalinity), mas)]))))))

(***************************************************************************)
(* The state of the page.                                                  *)
(*   mainForm     the inputs of the 1-D calculator                         *)
(*   customPanel  the user-defined gas: structure, beta x 10^3, T,P lines  *)
(*   paramForm    the inputs of the parametric (grid) study                *)
(*   t0FitCache, splineCache   the fitted T0(P) models, by gas key         *)
(*   currentCalculationData    the stored 1-D result, or Null              *)
(*   dataMWY, dataMAS          the cells of the two heatmaps               *)
(*   alerted      the text of the last alert, "" if none (an uncaught      *)
(*                exception of a handler is recorded here too)             *)
(*   lookup       the last call of getT0AtPressure: its arguments, the     *)
(*                points of the gas at the call and the T0 returned        *)
(*   roundTrip    an argument handed to a function and its result handed   *)
(*                to the inverse function: the arguments, the results      *)
(*   solver       a call of solveXFromLnaw: its target, its bracket, the   *)
(*                loop it is in, the bisections done, the value returned   *)
(***************************************************************************)
VARIABLES mainForm, customPanel, paramForm, t0FitCache, splineCache,
          currentCalculationData, dataMWY, dataMAS, alerted, lookup, roundTrip,
          solver
vars == <<mainForm, customPanel, paramForm, t0FitCache, splineCache,
          currentCalculationData, dataMWY, dataMAS, alerted, lookup, roundTrip,
          solver>>

Null == [gasKey |-> "null"]
NoLookup == [gasKey |-> "none"]
NoRoundTrip == [saltKey |-> "none"]
NoSolver == [pc |-> "idle"]
EmptyCache == [k \in {} |-> <<>>]
FAbs(a) == IF isNaN(a) THEN NaN ELSE Abs(a)

\* The lines of the T,P textarea, each split into its fields; a line counts
\* when it has two fields or more and the first two parse to finite numbers.
IsDataLine(line) ==
  /\ Len(line) >= 2
  /\ isFinite(parseFloat(line[1]))
  /\ isFinite(parseFloat(line[2]))
getCustomDataPointsOf(text) ==
  LET lines == SelectSeq(text, IsDataLine)
  IN  Tab(LAMBDA k : <<parseFloat(lines[k][1]), parseFloat(lines[k][2])>>, Len(lines))
getCustomDataPoints == getCustomDataPointsOf(customPanel.customTPData)

getGasObject(gasKey) ==
  IF gasKey = "Custom"
  THEN [structure |-> IF customPanel.customStructure = "" THEN "sI"
                      ELSE customPanel.customStructure,
        betaX |-> parseFloat(IF customPanel.customBetaX = Blank THEN Num(-SCALE)
                             ELSE customPanel.customBetaX),
        data |-> getCustomDataPoints]
  ELSE gasData[gasKey]

\* Monotone cubic (PCHIP-like) spline
SplineEndSlope(raw, delta) ==
  IF FLe(FMul(raw, delta), 0) THEN 0
  ELSE IF FGt(FAbs(raw), FMul(3 * SCALE, FAbs(delta))) THEN FMul(3 * SCALE, delta)
  ELSE raw
\* the mean of the two secants at an inner point
SplineSecantMean(h, delta, k) == FDiv(FAdd(delta[k - 1], delta[k]), 2 * SCALE)
SplineInnerSlope(h, delta, k) ==
  IF FLe(FMul(delta[k - 1], delta[k]), 0) THEN 0
  ELSE FDiv(3 * h[k] + 3 * h[k - 1],
            FAdd(FDiv(2 * h[k] + h[k - 1], delta[k - 1]),
                 FDiv(h[k] + 2 * h[k - 1], delta[k])))
\* the slope at an end: the three-point estimate over intervals ha (at the
\* end) and hb, with secants da (at the end) and db, limited
SplineEnd(ha, hb, da, db) ==
  SplineEndSlope(FDiv(FSub(FMul(2 * ha + hb, da), FMul(ha, db)), ha + hb), da)
SplineSlopes(n, h, delta) ==
  IF n = 1 THEN <<NaN>>
  ELSE IF n = 2 THEN <<delta[1], delta[1]>>
  ELSE Tab(LAMBDA k :
             IF k = 1 THEN SplineEnd(h[1], h[2], delta[1], delta[2])
             ELSE IF k = n
             THEN SplineEnd(h[n - 1], h[n - 2], delta[n - 1], delta[n - 2])
             ELSE SplineInnerSlope(h, delta, k), n)
buildMonotoneSpline(x, y) ==
  With(Tab(LAMBDA i : x[i + 1] - x[i], Len(x) - 1), LAMBDA h :
  With(Tab(LAMBDA i : FDiv(y[i + 1] - y[i], h[i]), Len(x) - 1), LAMBDA delta :
    [x |-> x, y |-> y, h |-> h, d |-> SplineSlopes(Len(x), h, delta)]))
\* the cubic Hermite polynomial on interval i at the local coordinate t
SplineHermite(s, i, t, u) ==
  FAdd(FAdd(FAdd(FMul(FMul(FMul(FAdd(SCALE, FMul(2 * SCALE, t)), u), u), s.y[i]),
                 FMul(FMul(FMul(FMul(t, u), u), s.h[i]), s.d[i])),
            FMul(FMul(FMul(t, t), FSub(3 * SCALE, FMul(2 * SCALE, t))), s.y[i + 1])),
       FMul(FMul(FMul(FMul(t, t), FSub(t, SCALE)), s.h[i]), s.d[i + 1]))
\* the interval the loop stops at: the first i with xp <= x[i+1]
SplineInterval(s, xp) ==
  With({k \in 1..(Len(s.x) - 1) : ~FGt(xp, s.x[k + 1])},
       LAMBDA hit : IF hit = {} THEN Len(s.x)
                    ELSE CHOOSE k \in hit : \A j \in hit : k <= j)
\* the value at the first point, whatever the pressure
SplineFirstValue(s, xp) == s.y[1]
evalMonotoneSpline(s, xp) ==
  IF FLe(xp, s.x[1]) THEN s.y[1]
  ELSE IF FGe(xp, s.x[Len(s.x)]) THEN s.y[Len(s.x)]
  ELSE With(SplineInterval(s, xp), LAMBDA i :
         IF i = Len(s.x) THEN NaN
         ELSE With(FDiv(FSub(xp, s.x[i]), s.h[i]),
                   LAMBDA t : SplineHermite(s, i, t, FSub(SCALE, t))))

(***************************************************************************)
(* T0(P): the reference-curve fits and their caches.                       *)
(***************************************************************************)
Pressures(pts) == Tab(LAMBDA k : pts[k][2], Len(pts))
Temperatures(pts) == Tab(LAMBDA k : pts[k][1], Len(pts))
\* a straight line fitted to a point list
LinearFit(pts) == fitPolynomial(Pressures(pts), Temperatures(pts), 1)
\* the polynomial model of a point list: degree min(3, n - 1)
PolyFit(pts) ==
  fitPolynomial(Pressures(pts), Temperatures(pts), Min2(3, Len(pts) - 1))
\* PolyFit of each built-in curve.  The curves are constants of the program,
\* so each of these fits is one value, computed once.
FittedGasKeys == {"CH4", "C2H6", "C3H8", "CO2"}
ReferenceFits == [g \in FittedGasKeys |-> PolyFit(gasData[g].data)]
PolyFitFor(gasKey, pts) ==
  IF gasKey \in FittedGasKeys THEN ReferenceFits[gasKey] ELSE PolyFit(pts)
\* cache[gasKey] is set (a stored model is an array or an object: truthy)
HasFit(cache, gasKey) == gasKey \in DOMAIN cache
\* a store that starts the cache anew
StoreOnlyFit(cache, gasKey, model) == [k \in {gasKey} |-> model]
\* cache[gasKey] = model
StoreFit(cache, gasKey, model) ==
  [k \in DOMAIN cache \cup {gasKey} |-> IF k = gasKey THEN model ELSE cache[k]]
\* the spline branch: the model is built when the cache holds none
T0BySpline(gasKey, pts, P) ==
  With(IF HasFit(splineCache, gasKey) THEN splineCache[gasKey]
       ELSE buildMonotoneSpline(Pressures(pts), Temperatures(pts)),
       LAMBDA model :
         [T0 |-> evalMonotoneSpline(model, P),
          t0FitCache |-> t0FitCache,
          splineCache |-> IF HasFit(splineCache, gasKey) THEN splineCache
                          ELSE StoreFit(splineCache, gasKey, model)])
\* the polynomial branch
T0ByPolynomial(gasKey, pts, P) ==
  With(IF HasFit(t0FitCache, gasKey) THEN t0FitCache[gasKey]
       ELSE PolyFitFor(gasKey, pts),
       LAMBDA model :
         [T0 |-> IF isFinite(P) THEN evalPolynomial(model, P) ELSE NaN,
          t0FitCache |-> IF HasFit(t0FitCache, gasKey) THEN t0FitCache
                         ELSE StoreFit(t0FitCache, gasKey, model),
          splineCache |-> splineCache])
\* a lookup without the early return of line 572
NoConstantT0Gas(gasKey) == FALSE
\* the gas whose T0 is one stored constant
ConstantT0Gas(gasKey) == gasKey = "CP"
\* The value returned and the two caches as the call leaves them.
getT0AtPressure(gasKey, P, method) ==
  IF ConstantT0Gas(gasKey)
  THEN [T0 |-> gasData.CP.t0_atm, t0FitCache |-> t0FitCache, splineCache |-> splineCache]
  ELSE With(IF gasKey \in GasKeys THEN getGasObject(gasKey).data ELSE <<>>,
            LAMBDA pts :
              IF Len(pts) = 0
              THEN [T0 |-> NaN, t0FitCache |-> t0FitCache, splineCache |-> splineCache]
              ELSE IF method = "spline" THEN T0BySpline(gasKey, pts, P)
              ELSE T0ByPolynomial(gasKey, pts, P))
\* the record of a call
LookupOf(gasKey, P, method, T0) ==
  [gasKey |-> gasKey, P |-> P, method |-> method,
   points |-> IF gasKey \in GasKeys THEN getGasObject(gasKey).data ELSE <<>>, T0 |-> T0]

\* beta = betaX * 1e-3 * alpha, at scale 10^-9
BetaOf(gasKey, useAlpha) ==
  With(getGasObject(gasKey),
       LAMBDA gas : FMul(gas.betaX, IF gas.structure = "sII" /\ useAlpha
                                    THEN ALPHA_SII ELSE SCALE))
computeBeta(gasKey) == BetaOf(gasKey, mainForm.siiAlphaToggle)
computeBetaCustom(gasKey, useAlphaFlag) == BetaOf(gasKey, useAlphaFlag)

\* median of a list of numbers; toFixed(3) and back
RECURSIVE SortedInsert(_, _)
SortedInsert(a, v) ==
  IF Len(a) = 0 THEN <<v>>
  ELSE IF v < a[Len(a)] THEN Append(SortedInsert(SubSeq(a, 1, Len(a) - 1), v), a[Len(a)])
  ELSE Append(a, v)
RECURSIVE Sorted(_)
Sorted(arr) ==
  IF Len(arr) = 0 THEN <<>>
  ELSE SortedInsert(Sorted(SubSeq(arr, 1, Len(arr) - 1)), arr[Len(arr)])
MiddleOf(a, n) ==
  IF n = 0 THEN NaN
  ELSE IF n % 2 = 1 THEN a[(n + 1) \div 2]
  ELSE (a[n \div 2] + a[n \div 2 + 1]) \div 2
median(arr) == With(Sorted(arr), LAMBDA a : MiddleOf(a, Len(a)))
ToFixed3(v) == Sgn(v) * (((Abs(v) + 500) \div 1000) * 1000)
\* the content syncPressureForGas leaves in the pressure input, for the
\* selected gas, its points and the content before
syncPressureForGas(gasKey, pts, before) ==
  IF gasKey = "CP" THEN Num(SCALE \div 10)
  ELSE With(IF Len(pts) > 0 THEN median(Pressures(pts)) ELSE SCALE,
            LAMBDA pMed : IF isFinite(pMed) THEN Num(ToFixed3(pMed)) ELSE before)

\* a grid of every second value
linspaceTwice(start, end, step) ==
  IF step <= 0 \/ end < start THEN <<>>
  ELSE Tab(LAMBDA k : start + (k - 1) * 2 * step, (end - start) \div (2 * step) + 1)
\* start, start + step, ... up to end (with a tolerance of 1e-9, below one
\* unit), each rounded to six decimals, which these values already have
linspace(start, end, step) ==
  IF step <= 0 \/ end < start THEN <<>>
  ELSE Tab(LAMBDA k : start + (k - 1) * step, (end - start) \div step + 1)

(***************************************************************************)
(* The Calculate handler: the 1-D supercooling sweep.                      *)
(***************************************************************************)
AlertInput == "check the input values"
AlertT0 == "check the T0(P) data of the gas"
AlertNoPoints == "no calculation is possible for these conditions"
AlertParamInput == "check the parametric input values"
AlertParamRange == "check the input ranges"
\* a handler that ended in an exception nobody catches raised no alert; the
\* model records the exception where it records alerts
UncaughtTypeError == "TypeError (uncaught)"
\* a lookup of the gas that yields some object for every key
EveryGasKnown(gasKey) == FALSE
\* gasData[gasKey] is undefined: reading gas.betaX throws (lines 631, 640)
UnknownGas(gasKey) == gasKey \notin GasKeys
\* saltProps[saltKey] is undefined: destructuring it throws (line 647)
UnknownSalt(saltKey) == saltKey \notin SaltKeys

\* F(lo) \o ... \o F(hi), the range halved as in TabRange
RECURSIVE Gather(_, _, _)
Gather(F(_), lo, hi) ==
  IF lo > hi THEN <<>>
  ELSE IF lo = hi THEN F(lo)
  ELSE LET mid == (lo + hi) \div 2
           left == Gather(F, lo, mid)
       IN  Then(left, left \o Gather(F, mid + 1, hi))

\* a handler without the swap (lines 772-775 left out)
RangeAsEntered(dTmin, dTmax) == <<dTmin, dTmax>>
\* a handler that swaps every range
SwapAlways(dTmin, dTmax) == <<dTmax, dTmin>>
\* the bounds of the range, swapped when entered inverted
SwapRange(dTmin, dTmax) == IF dTmin > dTmax THEN <<dTmax, dTmin>> ELSE <<dTmin, dTmax>>
\* a loop without the guard on the total supercooling (line 821 left out)
SkipStepOnLnawOnly(dT_total, T0_op, lnawMas) == ~isFinite(lnawMas) \/ lnawMas >= 0
\* the two guards on a step: total supercooling and ln(a_w)
SkipStep(dT_total, T0_op, lnawMas) ==
  \/ FGe(dT_total, T0_op)
  \/ ~isFinite(lnawMas)
  \/ lnawMas >= 0
\* the guard on the candidate MAS
SkipMas(mas) == ~isFinite(mas) \/ mas <= 0
\* a yield that forgets the water the initial solution holds per gram of salt
MwyOfDilution(initialNaClG, initialWaterG, mas) ==
  FMul(FDiv(FSub(initialWaterG, FMul(initialNaClG, FDiv(100 * SCALE, mas))),
            initialWaterG),
       100 * SCALE)

\* MWY of 100 g of solution that is concentrated from initialNaClG wt% to mas
SweepMwy(initialNaClG, initialWaterG, mas) ==
  FMul(FDiv(FSub(initialWaterG,
                 FMul(initialNaClG, FSub(FDiv(100 * SCALE, mas), SCALE))),
            initialWaterG),
       100 * SCALE)
\* a loop that records the salt of the concentrated solution instead
SaltAtMas(initialNaClG, mas) == FMul(FDiv(initialNaClG, 100 * SCALE), mas)
\* salt mass is conserved
FinalNaClG(initialNaClG, mas) == initialNaClG
\* dT / (T0 * (T0 - dT)) at scale 10^-9; T0 * (T0 - dT) is carried in 10^-3
DtT0T(dT_total, T0_op) ==
  With(MulN(T0_op, T0_op - dT_total),
       LAMBDA den : IF den = 0 THEN NaN ELSE MulDiv(dT_total, SCALE, den))
\* T0 * (1 + (dT/T0T) * T0)^-1
Thls(dtT0T, T0_op) ==
  IF isNaN(dtT0T) THEN NaN
  ELSE FMul(T0_op, FDiv(SCALE, SCALE + MulN(dtT0T, T0_op)))
\* the values pushed for a step that passed the guards
SweepPoint(c, dT_extra, dT_total, lnawMas, X_mas, mas) ==
  With([initialNaClG |-> c.initialSalinity,
        initialWaterG |-> 100 * SCALE - c.initialSalinity,
        ionMoles |-> saltProps[c.saltKey].ionCount
                       * Div(c.initialSalinity, saltProps[c.saltKey].molarMass),
        molesWater |-> Div(100 * SCALE - c.initialSalinity, WATER_MOLAR_MASS),
        dtT0T |-> DtT0T(dT_total, c.T0_op),
        finalNaClG |-> FinalNaClG(c.initialSalinity, mas)],
       LAMBDA v :
  With(FSub(FMul(FDiv(v.finalNaClG, mas), 100 * SCALE), v.finalNaClG),
       LAMBDA totalWaterNeeded :
  With(FSub(v.initialWaterG, totalWaterNeeded), LAMBDA waterInHydrate :
    [dT_extra |-> dT_extra,
     mas |-> mas,
     mwy |-> SweepMwy(v.initialNaClG, v.initialWaterG, mas),
     salinityMol |-> FMul(FDiv(v.ionMoles, v.ionMoles + v.molesWater), 100 * SCALE),
     X_mas |-> X_mas,
     lnawMas |-> lnawMas,
     dtT0T |-> v.dtT0T,
     thls |-> Thls(v.dtT0T, c.T0_op),
     tmax |-> c.T0_op - dT_total,
     finalNaClG |-> v.finalNaClG,
     initialWaterG |-> v.initialWaterG,
     waterInSolution |-> totalWaterNeeded,
     waterInHydrate |-> waterInHydrate,
     maxPureWaterYield |-> FMul(FDiv(waterInHydrate, v.initialWaterG), 100 * SCALE)])))
\* one pass of the loop: the point it pushes, or nothing.  ln(a_w) is computed
\* after the test of the total supercooling, as at lines 821-823.
SweepStep(c, i) ==
  With(c.dTmin + c.step * i, LAMBDA dT_extra :
  With(FAdd(c.dT_init_op, dT_extra), LAMBDA dT_total :
    IF SkipStep(dT_total, c.T0_op, computeLnawFromDelta(c.beta, dT_total, c.T0_op))
    THEN <<>>
    ELSE With(computeLnawFromDelta(c.beta, dT_total, c.T0_op), LAMBDA lnawMas :
         With(solveXFromLnaw(lnawMas), LAMBDA X_mas :
         With(computeSalinityFromX(X_mas, c.saltKey), LAMBDA mas :
           IF SkipMas(mas) THEN <<>>
           ELSE <<SweepPoint(c, dT_extra, dT_total, lnawMas, X_mas, mas)>>)))))
\* a handler that reports the point of the largest MAS
LargestMasPoint(pts) ==
  pts[CHOOSE k \in 1 .. Len(pts) : \A j \in 1 .. Len(pts) : pts[j].mas <= pts[k].mas]
\* a handler that reports the first point
FirstPoint(pts) == pts[1]
\* the point reported as headline: index length - 1 of each array
Headline(pts) == pts[Len(pts)]
\* the result record that the handler stores
CalculationData(c, pts) ==
  LET n == Len(pts)
      col(F(_)) == Tab(LAMBDA k : F(pts[k]), n)
      dtExtraMax == Headline(pts).dT_extra
      dtTotalAtOp == c.dT_init_op + dtExtraMax
  IN  [gasKey |-> c.gasKey, saltKey |-> c.saltKey,
       initialSalinity |-> c.initialSalinity, pressure |-> c.pressure,
       dTRange |-> col(LAMBDA q : q.dT_extra),
       masValues |-> col(LAMBDA q : q.mas),
       mwyValues |-> col(LAMBDA q : q.mwy),
       beta |-> c.beta, T0_op |-> c.T0_op, dT_init_op |-> c.dT_init_op,
       masMax |-> Headline(pts).mas, mwyMax |-> Headline(pts).mwy,
       dtExtraMax |-> dtExtraMax, dtTotalAtOp |-> dtTotalAtOp,
       tPureOp |-> c.T0_op, tInitOp |-> c.T0_op - c.dT_init_op,
       tMasOp |-> c.T0_op - dtTotalAtOp,
       salinityMolValues |-> col(LAMBDA q : q.salinityMol),
       xValues |-> col(LAMBDA q : q.X_mas),
       lnawValues |-> col(LAMBDA q : q.lnawMas),
       dtT0TValues |-> col(LAMBDA q : q.dtT0T),
       thlsValues |-> col(LAMBDA q : q.thls),
       tmaxValues |-> col(LAMBDA q : q.tmax),
       naclGValues |-> col(LAMBDA q : q.finalNaClG),
       waterGValues |-> col(LAMBDA q : q.initialWaterG),
       waterSolutionGValues |-> col(LAMBDA q : q.waterInSolution),
       waterHydrateGValues |-> col(LAMBDA q : q.waterInHydrate),
       maxPureWaterYieldValues |-> col(LAMBDA q : q.maxPureWaterYield)]
\* the values the handler has before its loop, for the fields of the form
\* and the T0 found
SweepRequest(form, T0_op) ==
  LET gasKey == form.gasSelect
      initialSalinity == parseFloat(form.salinityInput)
      range == SwapRange(parseFloat(form.dTminInput), parseFloat(form.dTmaxInput))
      lnaw_init == computeLnawFromX(computeXFromSalinity(initialSalinity, form.saltSelect))
  IN  With(computeBeta(gasKey), LAMBDA beta :
        [gasKey |-> gasKey, saltKey |-> form.saltSelect,
         initialSalinity |-> initialSalinity,
         pressure |-> IF gasKey = "CP" THEN SCALE \div 10
                      ELSE parseFloat(form.pressureInput),
         beta |-> beta, T0_op |-> T0_op,
         dT_init_op |-> computeDeltaT(beta, lnaw_init, T0_op),
         dTmin |-> range[1],
         step |-> Div(range[2] - range[1], (nPoints - 1) * SCALE)])
\* a handler that fails when any step was skipped
AnySkipped(pts) == Len(pts) < nPoints
\* dTRange.length === 0
NoPoints(pts) == Len(pts) = 0

\* The click on Calculate.  The handler's locals are bound once each, in the
\* order the handler assigns them (\E over a one-element set).
\* a handler that resets the stored result when it returns early
ResultCleared(data) == Null
\* the stored result after an early return: the assignment of line 898 is
\* not reached
ResultKept(data) == data
CalculateClick ==
  LET gasKey == mainForm.gasSelect
      saltKey == mainForm.saltSelect
      initialSalinity == parseFloat(mainForm.salinityInput)
      pressure == IF gasKey = "CP" THEN SCALE \div 10
                  ELSE parseFloat(mainForm.pressureInput)
      dTmin == parseFloat(mainForm.dTminInput)
      dTmax == parseFloat(mainForm.dTmaxInput)
      methodMain == mainForm.t0FitMethodSelect
  IN  /\ UNCHANGED <<mainForm, customPanel, paramForm, dataMWY, dataMAS, roundTrip, solver>>
      /\ IF isNaN(initialSalinity) \/ isNaN(pressure) \/ isNaN(dTmin) \/ isNaN(dTmax)
         THEN /\ alerted' = AlertInput
              /\ currentCalculationData' = ResultKept(currentCalculationData)
              /\ UNCHANGED <<t0FitCache, splineCache, lookup>>
         ELSE IF UnknownGas(gasKey)
         THEN /\ alerted' = UncaughtTypeError
              /\ UNCHANGED <<t0FitCache, splineCache, lookup, currentCalculationData>>
         ELSE
           \E t \in {getT0AtPressure(gasKey, pressure, methodMain)} :
           LET T0_op == t.T0
           IN  /\ t0FitCache' = t.t0FitCache
               /\ splineCache' = t.splineCache
               /\ lookup' = LookupOf(gasKey, pressure, methodMain, T0_op)
               /\ IF ~isFinite(T0_op)
                  THEN /\ alerted' = AlertT0
                       /\ currentCalculationData' = ResultKept(currentCalculationData)
                  ELSE IF UnknownSalt(saltKey)
                  THEN alerted' = UncaughtTypeError /\ UNCHANGED currentCalculationData
                  ELSE
                    \E c \in {SweepRequest(mainForm, T0_op)} :
                    \E pts \in {Gather(LAMBDA i : SweepStep(c, i), 0, nPoints - 1)} :
                      IF NoPoints(pts)
                      THEN /\ alerted' = AlertNoPoints
                           /\ currentCalculationData' = ResultKept(currentCalculationData)
                      ELSE /\ alerted' = ""
                           /\ currentCalculationData' = CalculationData(c, pts)

(***************************************************************************)
(* generateParametricHeatmaps: the 2-D sweep over initial salinity and     *)
(* formation temperature.                                                  *)
(***************************************************************************)
\* a bound of the colour window: Math.max(0, Math.min(1, parseFloat(text)))
NormBound(field) == MathMax(0, MathMin(SCALE, parseFloat(field)))
\* Math.max(1e-12, masMaxNorm - masMinNorm); 1e-12 is below one unit and is
\* carried as 0
NormRange(masMinNorm, masMaxNorm) == MathMax(0, FSub(masMaxNorm, masMinNorm))
MasNorm(masNormRaw, masMinNorm, range) ==
  MathMax(0, MathMin(SCALE, IF range = 0 THEN DivTiny(FSub(masNormRaw, masMinNorm))
                            ELSE FDiv(FSub(masNormRaw, masMinNorm), range)))
\* a window without its lower bound
InWindowBelowT0(dT_total, dT_init_op, T0_op) == FLt(dT_total, T0_op)
\* the cell is computed when its supercooling lies in [dT_init_op, T0_op)
InWindow(dT_total, dT_init_op, T0_op) ==
  FGe(dT_total, dT_init_op) /\ FLt(dT_total, T0_op)
\* the grid's MWY: ((mas - sInit) / mas) * 100, clamped to [0, 100]
GridMwy(mas, sInit) ==
  MathMax(0, MathMin(100 * SCALE, FMul(FDiv(FSub(mas, sInit), mas), 100 * SCALE)))
\* the MAS the solver finds for a cell, NaN for a cell that is not solved
GridMas(c, dT_total, dT_init_op) ==
  IF ~InWindow(dT_total, dT_init_op, c.T0_op) THEN NaN
  ELSE With(computeLnawFromDelta(c.beta, dT_total, c.T0_op),
            LAMBDA lnawMas :
              IF isFinite(lnawMas) /\ lnawMas < 0
              THEN computeSalinityFromX(solveXFromLnaw(lnawMas), c.saltKey)
              ELSE NaN)
\* the values of one cell, from the MAS found for it: the cell keeps its
\* defaults unless that MAS is finite and positive
GridValues(c, sInit, Tform, mas, found) ==
  With(IF found THEN MathMax(0, FSub(mas, sInit)) ELSE 0, LAMBDA masIncr :
  With(MathMax(0, 100 * SCALE - sInit), LAMBDA headroom :
  With(IF headroom > 0 THEN MathMax(0, MathMin(SCALE, FDiv(masIncr, headroom)))
       ELSE 0, LAMBDA masNormRaw :
    [x |-> sInit, y |-> Tform,
     mwyVal |-> IF found THEN GridMwy(mas, sInit) ELSE 0,
     masVal |-> IF found THEN mas ELSE sInit,
     masIncr |-> masIncr, masNormRaw |-> masNormRaw,
     masNorm |-> MasNorm(masNormRaw, c.masMinNorm, c.range)])))
GridCell(c, sInit, dT_init_op, Tform) ==
  With(GridMas(c, MathMax(0, FSub(c.T0_op, Tform)), dT_init_op),
       LAMBDA mas : GridValues(c, sInit, Tform, mas, isFinite(mas) /\ mas > 0))
\* the cells of one initial salinity, one per formation temperature
GridRow(c, sInit, temps) ==
  With(computeDeltaT(c.beta, computeLnawFromX(computeXFromSalinity(sInit, c.saltKey)),
                     c.T0_op),
       LAMBDA dT_init_op :
         Tab(LAMBDA j : GridCell(c, sInit, dT_init_op, temps[j]), Len(temps)))

generateParametricHeatmaps ==
  LET gasKey == paramForm.paramGas
      saltKey == paramForm.paramSalt
      pressure == parseFloat(paramForm.paramPressure)
      Tmin == parseFloat(paramForm.paramTMin)
      Tmax == parseFloat(paramForm.paramTMax)
      Tstep == parseFloat(paramForm.paramTStep)
      Smin == parseFloat(paramForm.paramSMin)
      Smax == parseFloat(paramForm.paramSMax)
      Sstep == parseFloat(paramForm.paramSStep)
      methodParam == paramForm.paramT0FitMethodSelect
  IN  /\ UNCHANGED <<mainForm, customPanel, paramForm, currentCalculationData, roundTrip, solver>>
      /\ IF \E v \in {pressure, Tmin, Tmax, Tstep, Smin, Smax, Sstep} : isNaN(v)
         THEN /\ alerted' = AlertParamInput
              /\ UNCHANGED <<t0FitCache, splineCache, lookup, dataMWY, dataMAS>>
         ELSE IF Tmin > Tmax \/ Smin > Smax \/ Tstep <= 0 \/ Sstep <= 0
         THEN /\ alerted' = AlertParamRange
              /\ UNCHANGED <<t0FitCache, splineCache, lookup, dataMWY, dataMAS>>
         ELSE IF UnknownGas(gasKey)
         THEN /\ alerted' = UncaughtTypeError
              /\ UNCHANGED <<t0FitCache, splineCache, lookup, dataMWY, dataMAS>>
         ELSE IF UnknownSalt(saltKey)
         THEN \E t \in {getT0AtPressure(gasKey, pressure, methodParam)} :
                /\ t0FitCache' = t.t0FitCache
                /\ splineCache' = t.splineCache
                /\ lookup' = LookupOf(gasKey, pressure, methodParam, t.T0)
                /\ alerted' = UncaughtTypeError
                /\ UNCHANGED <<dataMWY, dataMAS>>
         ELSE
           \E t \in {getT0AtPressure(gasKey, pressure, methodParam)} :
           \E masMinNorm \in {NormBound(paramForm.paramMasMin)} :
           \E masMaxNorm \in {NormBound(paramForm.paramMasMax)} :
           \E c \in {[saltKey |-> saltKey,
                       beta |-> computeBetaCustom(gasKey, paramForm.paramSiiAlphaToggle),
                       T0_op |-> t.T0,
                       masMinNorm |-> masMinNorm,
                       range |-> NormRange(masMinNorm, masMaxNorm)]} :
           \E temps \in {linspace(Tmin, Tmax, Tstep)} :
           \E salts \in {linspace(Smin, Smax, Sstep)} :
           \E cells \in {Gather(LAMBDA i : GridRow(c, salts[i], temps), 1, Len(salts))} :
               /\ t0FitCache' = t.t0FitCache
               /\ splineCache' = t.splineCache
               /\ lookup' = LookupOf(gasKey, pressure, methodParam, t.T0)
               /\ alerted' = ""
               /\ dataMWY' = Tab(LAMBDA k : [x |-> cells[k].x, y |-> cells[k].y,
                                             v |-> cells[k].mwyVal], Len(cells))
               /\ dataMAS' = Tab(LAMBDA k : [x |-> cells[k].x, y |-> cells[k].y,
                                             v |-> cells[k].masNorm,
                                             mas |-> cells[k].masVal,
                                             dmas |-> cells[k].masIncr,
                                             vraw |-> cells[k].masNormRaw], Len(cells))

(***************************************************************************)
(* The other operations on the state.                                      *)
(***************************************************************************)
\* the user edits the T,P lines of the user-defined gas
CustomTPDataInput(text) ==
  /\ text # customPanel.customTPData
  /\ customPanel' = [customPanel EXCEPT !.customTPData = text]
  /\ mainForm' =
       IF mainForm.gasSelect = "Custom"
       THEN [mainForm EXCEPT !.pressureInput =
               syncPressureForGas("Custom", getCustomDataPointsOf(text), @)]
       ELSE mainForm
  /\ UNCHANGED <<paramForm, t0FitCache, splineCache, currentCalculationData,
                 dataMWY, dataMAS, alerted, lookup, roundTrip, solver>>
\* the user selects a gas
GasSelectChange(gasKey) ==
  /\ gasKey # mainForm.gasSelect
  /\ mainForm' = [mainForm EXCEPT !.gasSelect = gasKey,
                                  !.pressureInput =
                                    syncPressureForGas(gasKey, getGasObject(gasKey).data, @)]
  /\ UNCHANGED <<customPanel, paramForm, t0FitCache, splineCache,
                 currentCalculationData, dataMWY, dataMAS, alerted, lookup, roundTrip, solver>>
\* the user types into a field of the 1-D form
MainFormInput(name, field) ==
  /\ field # mainForm[name]
  /\ mainForm' = [mainForm EXCEPT ![name] = field]
  /\ UNCHANGED <<customPanel, paramForm, t0FitCache, splineCache,
                 currentCalculationData, dataMWY, dataMAS, alerted, lookup, roundTrip, solver>>
\* the user selects a fit method for the 1-D sweep
FitMethodChange(method) ==
  /\ method # mainForm.t0FitMethodSelect
  /\ mainForm' = [mainForm EXCEPT !.t0FitMethodSelect = method]
  /\ UNCHANGED <<customPanel, paramForm, t0FitCache, splineCache,
                 currentCalculationData, dataMWY, dataMAS, alerted, lookup, roundTrip, solver>>

\* the user types a pressure into the parametric form
ParamPressureInput(field) ==
  /\ field # paramForm.paramPressure
  /\ paramForm' = [paramForm EXCEPT !.paramPressure = field]
  /\ UNCHANGED <<mainForm, customPanel, t0FitCache, splineCache,
                 currentCalculationData, dataMWY, dataMAS, alerted, lookup, roundTrip, solver>>
\* the user selects a fit method for the 2-D sweep
ParamFitMethodChange(method) ==
  /\ method # paramForm.paramT0FitMethodSelect
  /\ paramForm' = [paramForm EXCEPT !.paramT0FitMethodSelect = method]
  /\ UNCHANGED <<mainForm, customPanel, t0FitCache, splineCache,
                 currentCalculationData, dataMWY, dataMAS, alerted, lookup, roundTrip, solver>>

\* a salinity is converted to X and the X back to a salinity
ConvertRoundTrip ==
  /\ roundTrip # NoRoundTrip
  /\ ~roundTrip.converted
  /\ \E X \in {computeXFromSalinityWide(WFromMicro(roundTrip.salinity), roundTrip.saltKey)} :
       roundTrip' = [roundTrip EXCEPT !.converted = TRUE, !.X = X,
                                     !.back = computeSalinityFromXWide(X, roundTrip.saltKey)]
  /\ UNCHANGED <<mainForm, customPanel, paramForm, t0FitCache, splineCache,
                 currentCalculationData, dataMWY, dataMAS, alerted, lookup, solver>>

\* ln(a_w) is converted to a supercooling and the supercooling back
DeltaTRoundTrip ==
  /\ roundTrip # NoRoundTrip
  /\ ~roundTrip.converted
  /\ \E beta \in {WFromNano(roundTrip.beta)}, T0 \in {WFromMicro(roundTrip.T0)} :
       \E dT \in {computeDeltaTWide(beta, WFromMicro(roundTrip.lnaw), T0)} :
         roundTrip' = [roundTrip EXCEPT !.converted = TRUE, !.dT = dT,
                                       !.back = computeLnawFromDeltaWide(beta, dT, T0)]
  /\ UNCHANGED <<mainForm, customPanel, paramForm, t0FitCache, splineCache,
                 currentCalculationData, dataMWY, dataMAS, alerted, lookup, solver>>

\* a mole fraction is converted to ln(a_w) and ln(a_w) back by the solver
ActivityRoundTrip ==
  /\ roundTrip # NoRoundTrip
  /\ ~roundTrip.converted
  /\ \E lnaw \in {computeLnawFromXWide(WFromMicro(roundTrip.X))} :
       roundTrip' = [roundTrip EXCEPT !.converted = TRUE, !.lnaw = lnaw,
                                     !.back = solveXFromLnawWide(lnaw)]
  /\ UNCHANGED <<mainForm, customPanel, paramForm, t0FitCache, splineCache,
                 currentCalculationData, dataMWY, dataMAS, alerted, lookup, solver>>

\* the sweep's first pass for a range that begins at zero extra supercooling
ZeroStep ==
  /\ roundTrip # NoRoundTrip
  /\ ~roundTrip.converted
  /\ roundTrip' = [roundTrip EXCEPT
                     !.converted = TRUE,
                     !.point = ZeroStepPoint(WFromNano(roundTrip.beta),
                                             WFromMicro(roundTrip.T0_op),
                                             WFromMicro(roundTrip.initialSalinity),
                                             roundTrip.saltKey)]
  /\ UNCHANGED <<mainForm, customPanel, paramForm, t0FitCache, splineCache,
                 currentCalculationData, dataMWY, dataMAS, alerted, lookup, solver>>

\* solveXFromLnaw, one step of its loops at a time: the bracket grows while
\* the while loop's test holds, is halved by each pass of the for loop, and
\* its middle is returned after the last pass.
SolverExpand ==
  /\ solver.pc = "expand"
  /\ \E high \in {solveXExpand(solver.lnawTarget, solver.high)} :
       solver' = IF high = solver.high THEN [solver EXCEPT !.pc = "bisect"]
                 ELSE [solver EXCEPT !.high = high]
  /\ UNCHANGED <<mainForm, customPanel, paramForm, t0FitCache, splineCache,
                 currentCalculationData, dataMWY, dataMAS, alerted, lookup, roundTrip>>
SolverBisect ==
  /\ solver.pc = "bisect"
  /\ solver.i < Bisections
  /\ \E b \in {solveXBisect(solver.lnawTarget, [low |-> solver.low, high |-> solver.high])} :
       solver' = [solver EXCEPT !.low = b.low, !.high = b.high, !.i = @ + 1]
  /\ UNCHANGED <<mainForm, customPanel, paramForm, t0FitCache, splineCache,
                 currentCalculationData, dataMWY, dataMAS, alerted, lookup, roundTrip>>
SolverReturn ==
  /\ solver.pc = "bisect"
  /\ solver.i = Bisections
  /\ solver' = [solver EXCEPT !.pc = "done", !.X = (solver.low + solver.high) \div 2]
  /\ UNCHANGED <<mainForm, customPanel, paramForm, t0FitCache, splineCache,
                 currentCalculationData, dataMWY, dataMAS, alerted, lookup, roundTrip>>

(***************************************************************************)
(* Inputs.  What the user can enter is unbounded; the model enters these.  *)
(***************************************************************************)
K(units, micro) == units * SCALE + micro
Methods == {"poly", "spline"}
\* the pressure entered with each gas (MPa)
PressureFor ==
  [CH4 |-> K(6, 650000), CO2 |-> K(2, 550000), C3H8 |-> K(0, 338000),
   C2H6 |-> K(1, 254846), CP |-> K(0, 100000), Custom |-> K(1, 500000)]
\* the lines of the T,P textarea: two curves, the second with a line that
\* does not parse
CurveA == << <<Num(K(280, 0)), Num(K(1, 0))>>, <<Num(K(282, 0)), Num(K(2, 0))>>,
             <<Num(K(283, 0)), Num(K(3, 0))>> >>
CurveB == << <<Num(K(275, 0)), Num(K(1, 0))>>, <<Word, Num(K(1, 500000))>>,
             <<Num(K(279, 0)), Num(K(2, 0))>> >>
CustomTexts == {<<>>, CurveA, CurveB}

DefaultMainForm ==
  [gasSelect |-> "CH4", saltSelect |-> "NaCl", salinityInput |-> Num(K(3, 500000)),
   pressureInput |-> Num(K(5, 770000)), dTminInput |-> Num(K(0, 500000)),
   dTmaxInput |-> Num(K(5, 0)), siiAlphaToggle |-> TRUE, t0FitMethodSelect |-> "poly"]
DefaultCustomPanel ==
  [customStructure |-> "sI", customBetaX |-> Num(-SCALE), customTPData |-> <<>>]
DefaultParamForm ==
  [paramGas |-> "CH4", paramSalt |-> "NaCl", paramPressure |-> Num(K(6, 650000)),
   paramTMin |-> Num(K(271, 0)), paramTMax |-> Num(K(285, 0)),
   paramTStep |-> Num(K(0, 300000)),
   paramSMin |-> Num(0), paramSMax |-> Num(K(15, 0)), paramSStep |-> Num(K(0, 300000)),
   paramSiiAlphaToggle |-> TRUE, paramMasMin |-> Num(0), paramMasMax |-> Num(SCALE),
   paramT0FitMethodSelect |-> "poly"]

\* 1-D requests: gases of either structure and the constant-T0 gas, every
\* salt, two salinities, and ranges that are inverted, reaching below zero
\* and wide
SweepRanges ==
  { <<Num(K(5, 0)), Num(K(0, 500000))>>, <<Num(-K(1, 0)), Num(K(5, 0))>>,
    <<Num(0), Num(K(10, 0))>> }
BuiltinSweepForms ==
  { [gasSelect |-> g, saltSelect |-> st, salinityInput |-> Num(sal),
     pressureInput |-> Num(PressureFor[g]), dTminInput |-> r[1], dTmaxInput |-> r[2],
     siiAlphaToggle |-> TRUE, t0FitMethodSelect |-> "poly"] :
    g \in {"CH4", "C3H8", "CP"}, st \in SaltKeys,
    sal \in {K(3, 500000), K(8, 0)}, r \in SweepRanges }
\* the page's own request, and that request with another fit method, another
\* gas, without alpha, with a field that is no number, with fresh water, with
\* ranges that reach beyond T0 and close to it
VariedSweepForms ==
  { DefaultMainForm,
    [DefaultMainForm EXCEPT !.salinityInput = Num(K(8, 0)), !.t0FitMethodSelect = "spline"],
    [DefaultMainForm EXCEPT !.gasSelect = "CO2", !.pressureInput = Num(PressureFor.CO2)],
    [DefaultMainForm EXCEPT !.gasSelect = "C3H8", !.pressureInput = Num(PressureFor.C3H8),
                            !.siiAlphaToggle = FALSE],
    [DefaultMainForm EXCEPT !.salinityInput = Blank],
    [DefaultMainForm EXCEPT !.dTmaxInput = Word],
    [DefaultMainForm EXCEPT !.salinityInput = Num(0)],
    [DefaultMainForm EXCEPT !.salinityInput = Num(0), !.dTminInput = Num(-K(1, 0))],
    [DefaultMainForm EXCEPT !.dTminInput = Num(0), !.dTmaxInput = Num(K(300, 0))],
    [DefaultMainForm EXCEPT !.dTmaxInput = Num(K(250, 0))] }
\* requests with a key that is in neither table
UnknownKeySweepForms ==
  { [DefaultMainForm EXCEPT !.saltSelect = "LiCl"],
    [DefaultMainForm EXCEPT !.gasSelect = "Xe"],
    [DefaultMainForm EXCEPT !.gasSelect = "Xe", !.saltSelect = "LiCl"],
    [DefaultMainForm EXCEPT !.saltSelect = "LiCl", !.t0FitMethodSelect = "spline"],
    [DefaultMainForm EXCEPT !.saltSelect = "LiCl", !.salinityInput = Blank] }
\* requests for the user-defined gas: no points; a curve; a curve with a
\* positive beta and a range that lies above T0, and with a range below zero
CustomSweepInputs ==
  { [main |-> [DefaultMainForm EXCEPT !.gasSelect = "Custom",
                                      !.pressureInput = Num(PressureFor.Custom)],
     custom |-> DefaultCustomPanel],
    [main |-> [DefaultMainForm EXCEPT !.gasSelect = "Custom",
                                      !.pressureInput = Num(PressureFor.Custom),
                                      !.t0FitMethodSelect = "spline"],
     custom |-> [DefaultCustomPanel EXCEPT !.customTPData = CurveA,
                                           !.customStructure = "sII",
                                           !.customBetaX = Blank]],
    [main |-> [DefaultMainForm EXCEPT !.gasSelect = "Custom",
                                      !.pressureInput = Num(PressureFor.Custom),
                                      !.dTminInput = Num(K(300, 0)),
                                      !.dTmaxInput = Num(K(310, 0))],
     custom |-> [DefaultCustomPanel EXCEPT !.customTPData = CurveA,
                                           !.customBetaX = Num(SCALE)]],
    [main |-> [DefaultMainForm EXCEPT !.gasSelect = "Custom",
                                      !.pressureInput = Num(PressureFor.Custom),
                                      !.dTminInput = Num(-K(5, 0)),
                                      !.dTmaxInput = Num(-K(0, 500000))],
     custom |-> [DefaultCustomPanel EXCEPT !.customTPData = CurveA,
                                           !.customBetaX = Num(SCALE)]] }
SweepInputs ==
  { [main |-> f, custom |-> DefaultCustomPanel] :
    f \in BuiltinSweepForms \cup VariedSweepForms \cup UnknownKeySweepForms }
    \cup CustomSweepInputs

\* 2-D requests on a coarse grid (temperatures 270..284 K by 2 K, salinities
\* 0..12 wt% by 4 wt%): each gas and salt, with colour windows that are
\* full, narrow, inverted and empty
GridWindows ==
  { <<Num(0), Num(SCALE)>>, <<Num(K(0, 200000)), Num(K(0, 800000))>>,
    <<Num(K(0, 800000)), Num(K(0, 200000))>>, <<Num(K(0, 500000)), Num(K(0, 500000))>> }
CoarseParamForm ==
  [DefaultParamForm EXCEPT !.paramTMin = Num(K(270, 0)), !.paramTMax = Num(K(284, 0)),
                           !.paramTStep = Num(K(2, 0)), !.paramSMax = Num(K(12, 0)),
                           !.paramSStep = Num(K(4, 0))]
BuiltinGridForms ==
  { [CoarseParamForm EXCEPT !.paramGas = g, !.paramSalt = st,
                            !.paramPressure = Num(PressureFor[g]),
                            !.paramMasMin = w[1], !.paramMasMax = w[2]] :
    g \in {"CH4", "CO2", "C3H8", "CP"}, st \in SaltKeys, w \in GridWindows }
\* the page's own request (Scenario B: CH4, NaCl, 271..285 K by 0.3 K,
\* 0..15 wt% by 0.3 wt%), and coarse requests with the other fit method,
\* without alpha, with a window field that is empty or no number, with a
\* field that is no number, with an inverted range, with a zero step and for
\* the user-defined gas without points, and with a key that is in neither table
VariedGridForms ==
  { DefaultParamForm,
    [CoarseParamForm EXCEPT !.paramT0FitMethodSelect = "spline"],
    [CoarseParamForm EXCEPT !.paramGas = "C3H8", !.paramPressure = Num(PressureFor.C3H8),
                            !.paramSiiAlphaToggle = FALSE],
    [CoarseParamForm EXCEPT !.paramMasMin = Blank],
    [CoarseParamForm EXCEPT !.paramMasMax = Word],
    [CoarseParamForm EXCEPT !.paramPressure = Blank],
    [CoarseParamForm EXCEPT !.paramTMin = Num(K(290, 0))],
    [CoarseParamForm EXCEPT !.paramSStep = Num(0)],
    [CoarseParamForm EXCEPT !.paramGas = "Custom",
                            !.paramPressure = Num(PressureFor.Custom)],
    [CoarseParamForm EXCEPT !.paramSalt = "LiCl"],
    [CoarseParamForm EXCEPT !.paramGas = "Xe"] }
GridForms == BuiltinGridForms \cup VariedGridForms

\* requests that look T0 up and compute little: a 1-D range that lies above
\* every T0 (each step is skipped), and a grid of one cell (C2H6, 300 K,
\* fresh water)
HighRangeMainForm ==
  [DefaultMainForm EXCEPT !.dTminInput = Num(K(300, 0)), !.dTmaxInput = Num(K(310, 0))]
OneCellParamForm ==
  [DefaultParamForm EXCEPT !.paramGas = "C2H6", !.paramPressure = Num(PressureFor.C2H6),
                           !.paramTMin = Num(K(300, 0)), !.paramTMax = Num(K(300, 0)),
                           !.paramTStep = Num(K(1, 0)), !.paramSMax = Num(0),
                           !.paramSStep = Num(K(1, 0))]
\* the gases selected in the 1-D form
SelectedGasKeys == {"CH4", "Custom"}
\* requests for cyclopentane: the 1-D form with the range above T0, a grid
\* of one cell (275 K, 3.5 wt%), and the pressures typed into that grid's
\* form: atmospheric, high, zero
CPMainForm ==
  [HighRangeMainForm EXCEPT !.gasSelect = "CP", !.pressureInput = Num(PressureFor.CP)]
CPParamForm ==
  [DefaultParamForm EXCEPT !.paramGas = "CP", !.paramPressure = Num(PressureFor.CP),
                           !.paramTMin = Num(K(275, 0)), !.paramTMax = Num(K(275, 0)),
                           !.paramTStep = Num(K(1, 0)),
                           !.paramSMin = Num(K(3, 500000)), !.paramSMax = Num(K(3, 500000)),
                           !.paramSStep = Num(K(1, 0))]
CPPressures == {Num(PressureFor.CP), Num(K(6, 650000)), Num(0)}
\* the gases selected in the 1-D form next to cyclopentane
CPOrFittedGasKeys == {"CP", "CH4"}

(***************************************************************************)
(* Specifications.                                                         *)
(***************************************************************************)
\* the page as loaded: nothing fitted, nothing calculated
Loaded ==
  /\ t0FitCache = EmptyCache
  /\ splineCache = EmptyCache
  /\ currentCalculationData = Null
  /\ dataMWY = <<>>
  /\ dataMAS = <<>>
  /\ alerted = ""
  /\ lookup = NoLookup
  /\ roundTrip = NoRoundTrip
  /\ solver = NoSolver
\* The page with the two forms filled in with requests that compute little.
\* The user selects gases and fit methods, edits the points of the
\* user-defined gas, clicks Calculate and generates heatmaps, in any order.
Init ==
  /\ mainForm = HighRangeMainForm
  /\ customPanel = DefaultCustomPanel
  /\ paramForm = OneCellParamForm
  /\ Loaded
Next ==
  \/ CalculateClick
  \/ generateParametricHeatmaps
  \/ \E text \in CustomTexts : CustomTPDataInput(text)
  \/ \E gasKey \in SelectedGasKeys : GasSelectChange(gasKey)
  \/ \E method \in Methods : FitMethodChange(method)
Spec == Init /\ [][Next]_vars

\* The conversions alone: each salt with salinities of the open interval
\* (0, 100), every 0.5 wt% and close to both ends.
RoundTripSalinities ==
  {k * (SCALE \div 2) : k \in 1 .. 199}
    \cup {1, SCALE \div 100, 100 * SCALE - SCALE \div 100, 100 * SCALE - 1}
InitConvert ==
  /\ mainForm = DefaultMainForm
  /\ customPanel = DefaultCustomPanel
  /\ paramForm = DefaultParamForm
  /\ t0FitCache = EmptyCache
  /\ splineCache = EmptyCache
  /\ currentCalculationData = Null
  /\ dataMWY = <<>>
  /\ dataMAS = <<>>
  /\ alerted = ""
  /\ lookup = NoLookup
  /\ solver = NoSolver
  /\ \E saltKey \in SaltKeys, salinity \in RoundTripSalinities :
       roundTrip = [saltKey |-> saltKey, salinity |-> salinity, converted |-> FALSE,
                    X |-> WZero, back |-> WZero]
SpecConvert == InitConvert /\ [][ConvertRoundTrip]_vars

\* The supercooling and its inverse alone: beta of every built-in gas with
\* and without the sII factor and two betas of a user-defined gas, one of
\* them positive; ln(a_w) from -0.6 to 0.1; three T0.
RoundTripBetas ==
  {BetaOf(gasKey, useAlpha) : gasKey \in BuiltinGasKeys, useAlpha \in BOOLEAN}
    \cup {1000 * 1000, -40 * 1000}
RoundTripLnaws == {k * (SCALE \div 50) : k \in -30 .. 5} \cup {-1, -SCALE \div 1000}
RoundTripT0s == {K(268, 150000), K(280, 150000), K(293, 412345)}
InitDeltaT ==
  /\ mainForm = DefaultMainForm
  /\ customPanel = DefaultCustomPanel
  /\ paramForm = DefaultParamForm
  /\ t0FitCache = EmptyCache
  /\ splineCache = EmptyCache
  /\ currentCalculationData = Null
  /\ dataMWY = <<>>
  /\ dataMAS = <<>>
  /\ alerted = ""
  /\ lookup = NoLookup
  /\ solver = NoSolver
  /\ \E beta \in RoundTripBetas, lnaw \in RoundTripLnaws, T0 \in RoundTripT0s :
       roundTrip = [beta |-> beta, lnaw |-> lnaw, T0 |-> T0, converted |-> FALSE,
                    dT |-> WZero, back |-> WZero]
SpecDeltaT == InitDeltaT /\ [][DeltaTRoundTrip]_vars

\* The activity correlation and the solver alone, for mole fractions of the
\* open interval (0, 0.3): every 0.005, both ends, and around the first
\* bracket's upper end 0.2.
RoundTripXs ==
  {k * (SCALE \div 200) : k \in 1 .. 59}
    \cup {1, 10, SCALE \div 5 - 1, SCALE \div 5 + 1, 3 * (SCALE \div 10) - 1}
InitActivity ==
  /\ mainForm = DefaultMainForm
  /\ customPanel = DefaultCustomPanel
  /\ paramForm = DefaultParamForm
  /\ t0FitCache = EmptyCache
  /\ splineCache = EmptyCache
  /\ currentCalculationData = Null
  /\ dataMWY = <<>>
  /\ dataMAS = <<>>
  /\ alerted = ""
  /\ lookup = NoLookup
  /\ solver = NoSolver
  /\ \E X \in RoundTripXs :
       roundTrip = [X |-> X, converted |-> FALSE, lnaw |-> WZero, back |-> WZero]
SpecActivity == InitActivity /\ [][ActivityRoundTrip]_vars

\* A call of the solver, for ln(a_w) of those mole fractions and for targets
\* that no mole fraction of the interval gives.
OutsideTargets ==
  {0, SCALE \div 2, computeLnawFromX(SCALE \div 2), computeLnawFromX(SCALE),
   computeLnawFromX(11 * (SCALE \div 10)), -100 * SCALE}
SolverTargets == {computeLnawFromX(X) : X \in RoundTripXs} \cup OutsideTargets
InitSolve ==
  /\ mainForm = DefaultMainForm
  /\ customPanel = DefaultCustomPanel
  /\ paramForm = DefaultParamForm
  /\ t0FitCache = EmptyCache
  /\ splineCache = EmptyCache
  /\ currentCalculationData = Null
  /\ dataMWY = <<>>
  /\ dataMAS = <<>>
  /\ alerted = ""
  /\ lookup = NoLookup
  /\ roundTrip = NoRoundTrip
  /\ \E lnawTarget \in SolverTargets :
       solver = [pc |-> "expand", lnawTarget |-> lnawTarget, low |-> 0,
                 high |-> SCALE \div 5, i |-> 0, X |-> 0]
NextSolve ==
  \/ SolverExpand
  \/ SolverBisect
  \/ SolverReturn
\* a call that is started runs on to its end
SpecSolve == InitSolve /\ [][NextSolve]_vars /\ WF_vars(NextSolve)

\* The T0(P) fits alone: a user-defined gas with curves of one to five
\* points (one of them not monotone, one with steps, one entered in falling
\* order of pressure) and a built-in gas, looked up with both methods at
\* every 0.1 MPa from 0.2 to 5.2 MPa, the sample pressures of the
\* user-defined curves among them.  The supercooling range lies above every
\* T0, so that each request ends after its lookup.
FitCurves ==
  { << <<Num(K(280, 0)), Num(K(1, 0))>> >>,
    << <<Num(K(275, 0)), Num(K(1, 0))>>, <<Num(K(283, 0)), Num(K(3, 0))>> >>,
    CurveA,
    << <<Num(K(273, 500000)), Num(K(0, 500000))>>, <<Num(K(277, 0)), Num(K(1, 200000))>>,
       <<Num(K(281, 300000)), Num(K(2, 500000))>>, <<Num(K(285, 100000)), Num(K(5, 0))>> >>,
    << <<Num(K(272, 0)), Num(K(0, 500000))>>, <<Num(K(276, 0)), Num(K(1, 0))>>,
       <<Num(K(279, 500000)), Num(K(2, 0))>>, <<Num(K(282, 0)), Num(K(3, 200000))>>,
       <<Num(K(284, 0)), Num(K(5, 0))>> >>,
    << <<Num(K(280, 0)), Num(K(1, 0))>>, <<Num(K(284, 0)), Num(K(2, 0))>>,
       <<Num(K(281, 0)), Num(K(3, 0))>>, <<Num(K(283, 0)), Num(K(4, 0))>> >>,
    << <<Num(K(270, 0)), Num(K(1, 0))>>, <<Num(K(270, 100000)), Num(K(2, 0))>>,
       <<Num(K(280, 0)), Num(K(3, 0))>>, <<Num(K(280, 100000)), Num(K(4, 0))>> >>,
    << <<Num(K(283, 0)), Num(K(3, 0))>>, <<Num(K(275, 0)), Num(K(1, 0))>> >> }
FitPressures == {k * (SCALE \div 10) : k \in 2 .. 52}
FitMainForm ==
  [DefaultMainForm EXCEPT !.dTminInput = Num(K(1000, 0)), !.dTmaxInput = Num(K(1010, 0))]
FitInputs ==
  {[main |-> [FitMainForm EXCEPT !.gasSelect = "Custom"],
    custom |-> [DefaultCustomPanel EXCEPT !.customTPData = text]] : text \in FitCurves}
    \cup {[main |-> [FitMainForm EXCEPT !.gasSelect = "CO2"], custom |-> DefaultCustomPanel]}
InitFit ==
  /\ \E in \in FitInputs, P \in FitPressures, method \in Methods :
       /\ mainForm = [in.main EXCEPT !.pressureInput = Num(P), !.t0FitMethodSelect = method]
       /\ customPanel = in.custom
  /\ paramForm = DefaultParamForm
  /\ Loaded
SpecFit == InitFit /\ [][CalculateClick]_vars

\* Lookups for cyclopentane from both forms, at several pressures and with
\* both fit methods, between lookups for a gas that is fitted.
InitCP ==
  /\ mainForm = CPMainForm
  /\ customPanel = DefaultCustomPanel
  /\ paramForm = CPParamForm
  /\ Loaded
NextCP ==
  \/ CalculateClick
  \/ generateParametricHeatmaps
  \/ \E gasKey \in CPOrFittedGasKeys : GasSelectChange(gasKey)
  \/ \E method \in Methods : FitMethodChange(method)
  \/ \E field \in CPPressures : ParamPressureInput(field)
  \/ \E method \in Methods : ParamFitMethodChange(method)
SpecCP == InitCP /\ [][NextCP]_vars

\* Calculations one after another: between clicks the user blanks the
\* salinity or types it again, moves either bound of the range above every
\* T0 or back, and selects the user-defined gas, which has no points, or
\* methane.
RepeatEdits ==
  {[name |-> "salinityInput", field |-> f] : f \in {Num(K(3, 500000)), Blank}}
    \cup {[name |-> "dTminInput", field |-> f] : f \in {Num(K(0, 500000)), Num(K(300, 0))}}
    \cup {[name |-> "dTmaxInput", field |-> f] : f \in {Num(K(5, 0)), Num(K(320, 0))}}
InitRepeat ==
  /\ mainForm = DefaultMainForm
  /\ customPanel = DefaultCustomPanel
  /\ paramForm = DefaultParamForm
  /\ Loaded
NextRepeat ==
  \/ CalculateClick
  \/ \E edit \in RepeatEdits : MainFormInput(edit.name, edit.field)
  \/ \E gasKey \in SelectedGasKeys : GasSelectChange(gasKey)
SpecRepeat == InitRepeat /\ [][NextRepeat]_vars

\* The 1-D sweep over the requests of SweepInputs: the page is loaded, the
\* form is filled in, Calculate is clicked.
InitSweep ==
  /\ \E in \in SweepInputs : mainForm = in.main /\ customPanel = in.custom
  /\ paramForm = DefaultParamForm
  /\ Loaded
SpecSweep == InitSweep /\ [][CalculateClick]_vars

\* The first pass of the sweep alone, for every built-in gas and salt and
\* for solutions from dilute to mostly salt; the reference temperatures are
\* the ends of the built-in curves.
ZeroStepBetas == {BetaOf(gasKey, useAlpha) : gasKey \in BuiltinGasKeys, useAlpha \in BOOLEAN}
ZeroStepT0s == {K(273, 400000), K(286, 483333)}
ZeroStepSalinities ==
  {K(0, 500000), K(3, 500000), K(26, 0), K(60, 0), K(89, 0), K(89, 500000),
   K(95, 0), K(99, 900000)}
InitZero ==
  /\ mainForm = DefaultMainForm
  /\ customPanel = DefaultCustomPanel
  /\ paramForm = DefaultParamForm
  /\ t0FitCache = EmptyCache
  /\ splineCache = EmptyCache
  /\ currentCalculationData = Null
  /\ dataMWY = <<>>
  /\ dataMAS = <<>>
  /\ alerted = ""
  /\ lookup = NoLookup
  /\ solver = NoSolver
  /\ \E beta \in ZeroStepBetas, T0_op \in ZeroStepT0s, saltKey \in SaltKeys,
        initialSalinity \in ZeroStepSalinities :
       roundTrip = [beta |-> beta, T0_op |-> T0_op, saltKey |-> saltKey,
                    initialSalinity |-> initialSalinity, converted |-> FALSE,
                    point |-> NoStep]
SpecZero == InitZero /\ [][ZeroStep]_vars

\* The 2-D sweep over the requests of GridForms: the page is loaded, the
\* parametric form is filled in, the heatmaps are generated.
InitGrid ==
  /\ mainForm = DefaultMainForm
  /\ customPanel = DefaultCustomPanel
  /\ paramForm \in GridForms
  /\ Loaded
SpecGrid == InitGrid /\ [][generateParametricHeatmaps]_vars


(***************************************************************************)
(* Properties of the 1-D sweep.                                            *)
(***************************************************************************)
\* the stored result, and the number of points it holds
HasResult == currentCalculationData # Null
Emitted == IF HasResult THEN Len(currentCalculationData.dTRange) ELSE 0
\* the request's range as entered
EnteredMin == parseFloat(mainForm.dTminInput)
EnteredMax == parseFloat(mainForm.dTmaxInput)

\* C1: every point of a stored sweep has total supercooling (initial + extra)
\* strictly below T0 and a finite ln(a_w) strictly below 0; a step that fails
\* either test is in none of the arrays (all arrays have one length).
SweepPointsPassGuards ==
  HasResult =>
    LET d == currentCalculationData
    IN  /\ \A k \in 1..Emitted :
             /\ d.dT_init_op + d.dTRange[k] < d.T0_op
             /\ isFinite(d.lnawValues[k])
             /\ d.lnawValues[k] < 0
        /\ Len(d.lnawValues) = Emitted
        /\ Len(d.masValues) = Emitted
        /\ Len(d.mwyValues) = Emitted
        /\ Len(d.tmaxValues) = Emitted
\* a sweep that dropped steps and kept others
SweepDroppedSteps == HasResult /\ Emitted > 0 /\ Emitted < nPoints

\* C2: the salt grams recorded with every point of a sweep are the initial
\* salinity (100 g basis), whatever the point's MAS.
SaltGramsConserved ==
  HasResult =>
    LET d == currentCalculationData
    IN  /\ Len(d.naclGValues) = Emitted
        /\ \A k \in 1..Emitted : d.naclGValues[k] = d.initialSalinity
\* a sweep whose points have different MAS, none equal to the initial salinity
SaltGramsOverVaryingMas ==
  /\ HasResult
  /\ Emitted > 1
  /\ currentCalculationData.initialSalinity > 0
  /\ currentCalculationData.masValues[1] # currentCalculationData.masValues[Emitted]
  /\ currentCalculationData.masValues[Emitted] # currentCalculationData.initialSalinity

\* C3: the points of a sweep are in ascending order of extra supercooling,
\* also when the range was entered inverted and when steps were dropped.
SweepAscending ==
  HasResult =>
    \A k \in 1..(Emitted - 1) :
      currentCalculationData.dTRange[k] <= currentCalculationData.dTRange[k + 1]
\* a sweep of a range entered inverted
InvertedRangeSwept == HasResult /\ Emitted > 1 /\ EnteredMin > EnteredMax

\* C4: no point of a stored sweep has an MWY outside [0, 100].
SweepMwyInRange ==
  HasResult =>
    \A k \in 1..Emitted :
      /\ isFinite(currentCalculationData.mwyValues[k])
      /\ currentCalculationData.mwyValues[k] >= 0
      /\ currentCalculationData.mwyValues[k] <= 100 * SCALE

(***************************************************************************)
(* Properties of the 2-D sweep.                                            *)
(***************************************************************************)
\* heatmaps are stored, and the last T0 lookup is the one that made them
HasGrid ==
  /\ Len(dataMWY) > 0
  /\ lookup.gasKey = paramForm.paramGas
  /\ lookup.P = parseFloat(paramForm.paramPressure)
  /\ lookup.method = paramForm.paramT0FitMethodSelect
GridT0 == lookup.T0
GridBeta == computeBetaCustom(paramForm.paramGas, paramForm.paramSiiAlphaToggle)
\* the supercooling a cell implies, max(0, T0 - Tform), and the equilibrium
\* supercooling of its initial salinity
CellSupercooling(k) == MathMax(0, FSub(GridT0, dataMWY[k].y))
CellInitial(k) ==
  computeDeltaT(GridBeta,
                computeLnawFromX(computeXFromSalinity(dataMWY[k].x, paramForm.paramSalt)),
                GridT0)
\* the cell's supercooling lies in [dT_init(sInit), T0)
CellInInterval(k) ==
  /\ FGe(CellSupercooling(k), CellInitial(k))
  /\ FLt(CellSupercooling(k), GridT0)
\* 0.001 % of yield
MwyTolerance == SCALE \div 1000

\* C5: in every cell with an initial salinity in (0, 100) and a supercooling
\* in [dT_init(sInit), T0), the grid's MWY is the value that the 1-D sweep's
\* mass balance gives for the cell's MAS.
GridMwyIsSweepMwy ==
  HasGrid =>
    \A k \in 1..Len(dataMWY) :
      (dataMWY[k].x > 0 /\ dataMWY[k].x < 100 * SCALE /\ CellInInterval(k)) =>
        FLe(FAbs(FSub(dataMWY[k].v,
                      SweepMwy(dataMWY[k].x, 100 * SCALE - dataMWY[k].x, dataMAS[k].mas))),
            MwyTolerance)

\* C6: a cell has a nonzero MWY only when its supercooling lies in
\* [dT_init(sInit), T0); every cell outside the interval has MWY 0 and its
\* MAS is the initial salinity.
GridZeroOutsideInterval ==
  HasGrid =>
    \A k \in 1..Len(dataMWY) :
      /\ dataMWY[k].v # 0 => CellInInterval(k)
      /\ ~CellInInterval(k) => dataMWY[k].v = 0 /\ dataMAS[k].mas = dataMWY[k].x
\* heatmaps with a cell that has a yield and a cell, of a saline solution
\* below T0, that is not supercooled enough
GridWithCellsOutside ==
  /\ HasGrid
  /\ \E k \in 1..Len(dataMWY) : dataMWY[k].v > 0
  /\ \E k \in 1..Len(dataMWY) :
       /\ dataMWY[k].x > 0
       /\ CellSupercooling(k) > 0
       /\ ~CellInInterval(k)

\* C7: every cell of the raw field has an MWY in [0, 100] and every cell of
\* the normalized field has a value in [0, 1], whatever the colour window.
GridFieldsInRange ==
  \A k \in 1..Len(dataMWY) :
    /\ FGe(dataMWY[k].v, 0)
    /\ FLe(dataMWY[k].v, 100 * SCALE)
    /\ FGe(dataMAS[k].v, 0)
    /\ FLe(dataMAS[k].v, SCALE)

\* Scenario B is generated; a cell at minimal supercooling is the warmest
\* cell of its salinity row (rows are stored one after the other, each from
\* cold to warm) that lies below T0 and in [dT_init(sInit), T0)
ScenarioB == HasGrid /\ paramForm = DefaultParamForm
CellSupercooled(k) == CellSupercooling(k) > 0 /\ CellInInterval(k)
MinimalCell(k) ==
  /\ CellSupercooled(k)
  /\ \/ k = Len(dataMWY)
     \/ dataMWY[k + 1].x # dataMWY[k].x
     \/ ~CellSupercooled(k + 1)
\* the grid's MWY at one temperature step past dT_init(sInit)
StepYield(k) ==
  GridMwy(computeSalinityFromX(
            solveXFromLnaw(computeLnawFromDelta(
              GridBeta, CellInitial(k) + parseFloat(paramForm.paramTStep), GridT0)),
            paramForm.paramSalt),
          dataMWY[k].x)
\* a yield of 5 % counts as approximately 0
ApproxZero == 5 * SCALE
HighSalinity == K(9, 600000)

\* C8 (as stated): in the Scenario-B grid every cell at minimal supercooling
\* has an MWY of approximately 0, at every salinity of the grid.
MinimalCellsNearZero ==
  ScenarioB =>
    \A k \in 1..Len(dataMWY) : MinimalCell(k) => dataMWY[k].v <= ApproxZero
\* C8 (amended): in the Scenario-B grid a cell at minimal supercooling has an
\* MWY of 100 at salinity 0, at other salinities an MWY of at most the yield
\* of one temperature step past dT_init(sInit), and an MWY of approximately 0
\* (at most 5 %) at every salinity from 9.6 wt% upward.
MinimalCellsWithinOneStep ==
  ScenarioB =>
    \A k \in 1..Len(dataMWY) :
      MinimalCell(k) =>
        /\ dataMWY[k].x = 0 => dataMWY[k].v = 100 * SCALE
        /\ dataMWY[k].x > 0 => dataMWY[k].v <= StepYield(k) + MwyTolerance
        /\ dataMWY[k].x >= HighSalinity => dataMWY[k].v <= ApproxZero
\* Scenario B with a cell at minimal supercooling, of a saline solution, that
\* has a yield above 50 %
MinimalCellWithYield ==
  /\ ScenarioB
  /\ \E k \in 1..Len(dataMWY) :
       MinimalCell(k) /\ dataMWY[k].x > 0 /\ dataMWY[k].v > 50 * SCALE

(***************************************************************************)
(* Properties of the T0 lookup and its caches.                             *)
(***************************************************************************)
\* the T0 of a recorded call when the model is fitted from the points the
\* gas had at that call
FreshT0(l) ==
  IF l.gasKey = "CP" THEN gasData.CP.t0_atm
  ELSE IF Len(l.points) = 0 THEN NaN
  ELSE IF l.method = "spline"
  THEN evalMonotoneSpline(buildMonotoneSpline(Pressures(l.points), Temperatures(l.points)),
                          l.P)
  ELSE IF isFinite(l.P) THEN evalPolynomial(PolyFitFor(l.gasKey, l.points), l.P)
  ELSE NaN
Looked(gasKey, method) == lookup.gasKey = gasKey /\ lookup.method = method

\* C9: a lookup for the user-defined gas returns the T0 fitted from the
\* points the gas has at that call, with either fit method, also after the
\* points were changed between two calls.
CustomLookupIsFresh ==
  lookup.gasKey = "Custom" => lookup.T0 = FreshT0(lookup)

\* C10: a step never removes or changes a cached model; a model is added only
\* to the cache of the method of the step's lookup and only for the gas
\* looked up; a step that records a lookup of a gas with a reference curve
\* leaves the gas in the cache of the method, and the T0 it returns is the T0
\* of the model fitted from the reference curve, which depends on the gas,
\* the method and the pressure only (a lookup that records nothing new has
\* returned the T0 recorded before).
BuiltinFitsKept ==
  [][/\ \A g \in DOMAIN t0FitCache :
          g \in DOMAIN t0FitCache' /\ t0FitCache'[g] = t0FitCache[g]
     /\ \A g \in DOMAIN splineCache :
          g \in DOMAIN splineCache' /\ splineCache'[g] = splineCache[g]
     /\ \A g \in DOMAIN t0FitCache' \ DOMAIN t0FitCache :
          lookup'.gasKey = g /\ lookup'.method # "spline"
     /\ \A g \in DOMAIN splineCache' \ DOMAIN splineCache :
          lookup'.gasKey = g /\ lookup'.method = "spline"
     /\ (lookup' # lookup /\ lookup'.gasKey \in FittedGasKeys) =>
          /\ lookup'.gasKey \in
               DOMAIN (IF lookup'.method = "spline" THEN splineCache' ELSE t0FitCache')
          /\ lookup'.T0 = FreshT0(lookup')]_vars
\* a polynomial lookup of CH4 when the caches hold the spline of CH4 and the
\* polynomials of another built-in gas and of the user-defined gas
LookupAmongFits ==
  /\ Looked("CH4", "poly")
  /\ "CH4" \in DOMAIN t0FitCache
  /\ "CH4" \in DOMAIN splineCache
  /\ "C2H6" \in DOMAIN t0FitCache
  /\ "Custom" \in DOMAIN t0FitCache

(***************************************************************************)
(* Properties of the gas with a constant T0.                               *)
(***************************************************************************)
\* C11: a T0 lookup for CP returns the stored constant, 280.15 K, whatever
\* the pressure and the fit method of the request, and no CP lookup changes
\* the polynomial cache or the spline cache: a step that ends with a CP
\* lookup as the last lookup leaves both caches as they were.
CPLookupIsConstant ==
  [][lookup'.gasKey = "CP" =>
       /\ lookup'.T0 = gasData.CP.t0_atm
       /\ lookup'.T0 = K(280, 150000)
       /\ t0FitCache' = t0FitCache
       /\ splineCache' = splineCache
       /\ "CP" \notin DOMAIN t0FitCache' \cup DOMAIN splineCache']_vars
\* a CP lookup at a pressure other than atmospheric with the spline method,
\* made while the polynomial cache holds a fit of another gas
CPLookedUpAtHighPressure ==
  /\ lookup.gasKey = "CP"
  /\ lookup.P = K(6, 650000)
  /\ lookup.method = "spline"
  /\ HasFit(t0FitCache, "CH4")
  /\ Len(dataMWY) > 0

(***************************************************************************)
(* Properties of the checks on a request.                                  *)
(***************************************************************************)
\* C12: a 1-D request whose pressure is not positive, whose initial salinity
\* is outside the open interval (0, 100) or whose numeric inputs are not
\* finite is refused: it stores no result, so a stored result is that of a
\* request with finite inputs, a positive pressure and a salinity in (0, 100).
MalformedRequestStoresNothing ==
  HasResult =>
    /\ \A v \in {currentCalculationData.initialSalinity, currentCalculationData.pressure,
                 EnteredMin, EnteredMax} : isFinite(v)
    /\ currentCalculationData.pressure > 0
    /\ currentCalculationData.initialSalinity > 0
    /\ currentCalculationData.initialSalinity < 100 * SCALE

(***************************************************************************)
(* Properties of the outcome of a 1-D sweep.                               *)
(***************************************************************************)
\* the handler reached its loop: T0 was looked up and is finite
SweptAt ==
  IF lookup # NoLookup /\ isFinite(lookup.T0) /\ ~UnknownSalt(mainForm.saltSelect)
  THEN {lookup.T0} ELSE {}
\* some step of the request passes the guards of the loop
Feasible(c) == \E i \in 0 .. nPoints - 1 : SweepStep(c, i) # <<>>

\* C13: a sweep all of whose steps are skipped fails with the no-points
\* alert and stores no headline values; a sweep with at least one step that
\* passes the guards does not fail, whatever steps it skips: it raises no
\* alert and stores a result with at least one point.
NoPointsIffEveryStepSkipped ==
  \A T0_op \in SweptAt :
    With(SweepRequest(mainForm, T0_op), LAMBDA c :
      IF Feasible(c)
      THEN alerted = "" /\ HasResult /\ Emitted >= 1
      ELSE alerted = AlertNoPoints /\ ~HasResult)
\* a sweep whose range lies above T0: every step is skipped
EveryStepSkipped ==
  /\ SweptAt # {}
  /\ alerted = AlertNoPoints
  /\ ~HasResult
  /\ EnteredMin > lookup.T0

(***************************************************************************)
(* Properties of a lookup for a gas without reference points.              *)
(***************************************************************************)
\* the last lookup was a fit for a gas that has no points
LookedUpWithoutPoints ==
  /\ lookup # NoLookup
  /\ ~ConstantT0Gas(lookup.gasKey)
  /\ Len(lookup.points) = 0

\* C14: a T0 lookup for a gas with zero reference points fails, and the grid
\* sweep that made the lookup produces no cells: it raises the alert for
\* missing T0 data and both heatmaps stay empty.
NoCellsWithoutReferencePoints ==
  LookedUpWithoutPoints =>
    /\ isNaN(lookup.T0)
    /\ alerted = AlertT0
    /\ dataMWY = <<>>
    /\ dataMAS = <<>>

(***************************************************************************)
(* Properties of a request with an unrecognized key.                       *)
(***************************************************************************)
\* the 1-D form names a salt or a gas that is in neither table
UnknownKeyRequested ==
  UnknownSalt(mainForm.saltSelect) \/ UnknownGas(mainForm.gasSelect)
\* the other fields of the 1-D form pass the handler's checks
FieldsParse ==
  \A f \in {mainForm.salinityInput, mainForm.pressureInput,
            mainForm.dTminInput, mainForm.dTmaxInput} : ~isNaN(parseFloat(f))

HeadlineIsLastPoint ==
  HasResult =>
    /\ currentCalculationData.masMax = currentCalculationData.masValues[Emitted]
    /\ currentCalculationData.mwyMax = currentCalculationData.mwyValues[Emitted]
\* a stored sweep whose MAS and MWY fall along the sweep: the last point has
\* the smallest of each
HeadlineBelowEarlierPoint ==
  /\ HasResult
  /\ Emitted = nPoints
  /\ currentCalculationData.masValues[1] > currentCalculationData.masMax
  /\ currentCalculationData.mwyValues[1] > currentCalculationData.mwyMax

\* the larger of the two bounds as entered
EnteredUpper == Max2(EnteredMin, EnteredMax)
\* The step is carried rounded to 10^-6 K, so the 50th value of the sweep is
\* within half a unit per step of the upper bound.
StepRounding == nPoints \div 2
\* the last step of the request (i = nPoints - 1) passes the guards
LastStepEmitted ==
  \E T0_op \in SweptAt : SweepStep(SweepRequest(mainForm, T0_op), nPoints - 1) # <<>>

\* C17 as stated: after every successful sweep dtExtraMax equals the larger
\* of the two requested bounds.
HeadlineAtUpperBound ==
  HasResult => Abs(currentCalculationData.dtExtraMax - EnteredUpper) <= StepRounding
\* C17: dtExtraMax is the extra supercooling of the last emitted point.  It
\* never exceeds the larger of the two requested bounds; it equals that bound
\* when the last step of the sweep passes the guards, and lies below it when
\* the last step is skipped.
HeadlineAtLastEmittedStep ==
  HasResult =>
    /\ currentCalculationData.dtExtraMax = currentCalculationData.dTRange[Emitted]
    /\ currentCalculationData.dtExtraMax <= EnteredUpper + StepRounding
    /\ LastStepEmitted =>
         Abs(currentCalculationData.dtExtraMax - EnteredUpper) <= StepRounding
    /\ ~LastStepEmitted /\ EnteredMin # EnteredMax =>
         currentCalculationData.dtExtraMax < EnteredUpper - StepRounding
\* a stored sweep whose upper steps were skipped: the headline point lies
\* more than 1 K below the upper bound
HeadlineBelowUpperBound ==
  /\ HasResult
  /\ ~LastStepEmitted
  /\ currentCalculationData.dtExtraMax < EnteredUpper - SCALE

(***************************************************************************)
(* Relations between 1-D sweeps.                                           *)
(***************************************************************************)
\* what a click stores for a form and the T0 found: the result, or none
SweepOf(form, T0_op) ==
  With(SweepRequest(form, T0_op), LAMBDA c :
  With(Gather(LAMBDA i : SweepStep(c, i), 0, nPoints - 1), LAMBDA pts :
    IF NoPoints(pts) THEN Null ELSE CalculationData(c, pts)))
\* the form with the two bounds of the range exchanged
MirroredForm ==
  [mainForm EXCEPT !.dTminInput = mainForm.dTmaxInput,
                   !.dTmaxInput = mainForm.dTminInput]

\* C18: the range is swapped when entered inverted: the request with the
\* range (b, a) gives what the request with (a, b) gave, the same emitted
\* sequences in every array and the same headline values (or no result when
\* that one had none).
MirroredRangeSameResult ==
  \A T0_op \in SweptAt : SweepOf(MirroredForm, T0_op) = currentCalculationData
\* a stored sweep of a range entered inverted, all of whose steps were
\* emitted: it starts at the second bound entered
MirroredRangeSwept ==
  /\ HasResult
  /\ EnteredMin > EnteredMax
  /\ Emitted = nPoints
  /\ currentCalculationData.dTRange[1] = EnteredMax
  /\ currentCalculationData.dtExtraMax > EnteredMax

\* upper bounds wider than the one entered: by 0.5 K, by 5 K (as from 5 K
\* to 10 K), and one so wide that the steps are 40 K apart
WidenedUppers == {EnteredUpper + SCALE \div 2, EnteredUpper + 5 * SCALE, K(1974, 200000)}
\* the form with the lower bound kept and the upper bound replaced
WidenedForm(upper) ==
  [mainForm EXCEPT !.dTminInput = Num(Min2(EnteredMin, EnteredMax)),
                   !.dTmaxInput = Num(upper)]
\* masMax of what a click stores for a form, NaN when it stores nothing
MasMaxOf(form, T0_op) ==
  With(SweepOf(form, T0_op), LAMBDA r : IF r = Null THEN NaN ELSE r.masMax)

\* C19 as stated: with everything else fixed, the sweep of a wider range has
\* a masMax that is no smaller.
WiderRangeKeepsMasMax ==
  HasResult =>
    \A T0_op \in SweptAt : \A upper \in WidenedUppers :
      With(MasMaxOf(WidenedForm(upper), T0_op), LAMBDA wider :
        isFinite(wider) /\ wider >= currentCalculationData.masMax)
\* C19: with everything else fixed and beta negative, the sweep of a wider
\* range has a masMax that is no smaller whenever the last step of the wider
\* sweep passes the guards, so that its headline point is its upper end.
WiderRangeKeepsMasMaxAtEmittedEnd ==
  HasResult /\ currentCalculationData.beta < 0 =>
    \A T0_op \in SweptAt : \A upper \in WidenedUppers :
      SweepStep(SweepRequest(WidenedForm(upper), T0_op), nPoints - 1) # <<>> =>
        With(MasMaxOf(WidenedForm(upper), T0_op), LAMBDA wider :
          isFinite(wider) /\ wider >= currentCalculationData.masMax)
\* the stored sweep of Scenario A (0.5 to 5 K), whose widening to 10 K has a
\* larger masMax
ScenarioAWidened ==
  /\ HasResult
  /\ mainForm = DefaultMainForm
  /\ \E T0_op \in SweptAt :
       MasMaxOf(WidenedForm(K(10, 0)), T0_op) > currentCalculationData.masMax

(***************************************************************************)
(* Properties of the conversions between salinity and X.                   *)
(***************************************************************************)
\* |a - b| <= tol, for wide numbers
WideWithin(a, b, tol) == ~WAbsGt(WSub(a, b), tol)
\* 10^-6 and 10^-9 as wide numbers
WideMillionth == Wide(FALSE, <<0, 100>>)
WideBillionth == Wide(FALSE, <<1000>>)
WideFifth == Wide(FALSE, <<0, 0, 2000>>)

\* C20: for each salt and each salinity s of (0, 100), computeSalinityFromX
\* of computeXFromSalinity of s gives s back: within 10^-6 wt% for every s,
\* and within a relative error of 10^-9 for every s of at least 0.5 wt%
\* (below that the model's 12 decimals do not resolve a relative 10^-9).
SalinityRoundTrip ==
  roundTrip # NoRoundTrip /\ roundTrip.converted =>
    /\ WideWithin(roundTrip.back, WFromMicro(roundTrip.salinity), WideMillionth)
    /\ roundTrip.salinity >= SCALE \div 2 =>
         WideWithin(roundTrip.back, WFromMicro(roundTrip.salinity),
                    WMul(WFromMicro(roundTrip.salinity), WideBillionth))
\* a salinity of MgCl2 converted with the coefficients 4 and 3 and back
MgCl2RoundTripDone ==
  /\ roundTrip # NoRoundTrip
  /\ roundTrip.converted
  /\ roundTrip.saltKey = "MgCl2"
  /\ roundTrip.salinity = K(3, 500000)
  /\ ~WIsZero(roundTrip.X)

(***************************************************************************)
(* Properties of the supercooling and its inverse.                         *)
(***************************************************************************)
\* C21: computeLnawFromDelta inverts computeDeltaT: for beta # 0, T0 > 0 and
\* ln(a_w) with 1 + beta * ln(a_w) * T0 # 0, the ln(a_w) computed from the
\* supercooling that computeDeltaT gives is the ln(a_w) it was given, to
\* within 10^-9.
DeltaTRoundTripReturns ==
  ("beta" \in DOMAIN roundTrip /\ roundTrip.converted)
    => WideWithin(roundTrip.back, WFromMicro(roundTrip.lnaw), WideBillionth)
\* a round trip through a supercooling of more than 10 K
LargeDeltaTRoundTripDone ==
  /\ "beta" \in DOMAIN roundTrip
  /\ roundTrip.converted
  /\ roundTrip.beta < 0
  /\ roundTrip.lnaw < 0
  /\ WAbsGt(roundTrip.dT, WideOf(10))

(***************************************************************************)
(* Properties of the root finder.                                          *)
(***************************************************************************)
\* the mole fraction was taken to ln(a_w) and back
ActivityConverted == "lnaw" \in DOMAIN roundTrip /\ "X" \in DOMAIN roundTrip /\ roundTrip.converted

\* C22: solveXFromLnaw inverts computeLnawFromX: for X in (0, 0.3) the value
\* it returns for ln(a_w)(X) is within 10^-6 of X, also for X above 0.2, the
\* upper end of the first bracket, where the bracket is grown first.
SolverInvertsActivity ==
  ActivityConverted => WideWithin(roundTrip.back, WFromMicro(roundTrip.X), WideMillionth)
\* a mole fraction above 0.2 taken to ln(a_w) and back
SolvedAboveFirstBracket ==
  /\ ActivityConverted
  /\ roundTrip.X = SCALE \div 4
  /\ WPositive(WSub(computeLnawFromXWide(WideFifth), roundTrip.lnaw))

SolverDone == solver.pc = "done"
\* the bracket is ordered and ends at 1.1 at most, the passes are counted up
\* to 50, and the value returned lies in the last bracket after 50 passes
SolverBracketed ==
  /\ solver.pc \in {"expand", "bisect", "done"}
  /\ 0 <= solver.low
  /\ solver.low <= solver.high
  /\ solver.high <= 11 * (SCALE \div 10)
  /\ solver.i \in 0 .. Bisections
  /\ solver.pc = "expand" => solver.i = 0 /\ solver.low = 0
  /\ SolverDone => /\ solver.i = Bisections
                   /\ solver.low <= solver.X
                   /\ solver.X <= solver.high
                   /\ solver.X = solveXFromLnaw(solver.lnawTarget)
\* C23: solveXFromLnaw returns for every target: the bracket is grown by 0.1
\* a bounded number of times (its upper end stays at 1.1 or below), 50
\* bisections follow, and the value returned lies in the last bracket; the
\* bracket is ordered throughout.
SolverTerminates == []SolverBracketed /\ <>SolverDone
\* a call that grew its bracket to the last upper end and returned
SolvedInLastBracket ==
  /\ SolverDone
  /\ solver.high = 11 * (SCALE \div 10)

(***************************************************************************)
(* Properties of the T0(P) fits.                                           *)
(***************************************************************************)
\* a lookup was made with the method for a gas that has points
Fitted(method) ==
  /\ lookup # NoLookup
  /\ lookup.method = method
  /\ Len(lookup.points) > 0
SamplePressure(k) == lookup.points[k][2]
SampleT0(k) == lookup.points[k][1]
Samples == 1 .. Len(lookup.points)
\* the pressures of the samples differ
DistinctPressures == \A j, k \in Samples : j # k => SamplePressure(j) # SamplePressure(k)
\* the samples are in rising order of pressure
AscendingPressures == \A k \in Samples : k > 1 => SamplePressure(k - 1) < SamplePressure(k)

\* C24: the polynomial has degree min(3, n - 1) for n samples, and for 2, 3
\* or 4 samples of distinct pressures its value at each sample pressure is
\* that sample's T0 (to the last digit the model carries).
PolynomialExactAtSamples ==
  Fitted("poly") =>
    /\ Len(PolyFitFor(lookup.gasKey, lookup.points)) = Min2(3, Len(lookup.points) - 1) + 1
    /\ lookup.T0 = evalPolynomial(PolyFitFor(lookup.gasKey, lookup.points), lookup.P)
    /\ DistinctPressures /\ Len(lookup.points) <= 4 =>
         \A k \in Samples :
           lookup.P = SamplePressure(k) => Abs(lookup.T0 - SampleT0(k)) <= 1
\* a lookup at the second sample pressure of a curve of four points
CubicLookedUpAtSample ==
  /\ Fitted("poly")
  /\ Len(lookup.points) = 4
  /\ DistinctPressures
  /\ lookup.P = SamplePressure(2)
  /\ isFinite(lookup.T0)

\* C25: at a pressure at or below the smallest sample pressure the spline
\* returns the first sample's T0 and at a pressure at or above the largest
\* the last sample's T0, for samples in rising order of pressure.
SplineClampsAtEnds ==
  Fitted("spline") /\ AscendingPressures =>
    /\ lookup.P <= SamplePressure(1) => lookup.T0 = SampleT0(1)
    /\ lookup.P >= SamplePressure(Len(lookup.points)) =>
         lookup.T0 = SampleT0(Len(lookup.points))
\* a spline looked up above the largest pressure of a curve of several points
SplineLookedUpAboveRange ==
  /\ Fitted("spline")
  /\ AscendingPressures
  /\ Len(lookup.points) >= 3
  /\ lookup.P > SamplePressure(Len(lookup.points))
  /\ lookup.T0 = SampleT0(Len(lookup.points))
  /\ lookup.T0 # SampleT0(1)

\* the lookup's pressure lies in the segment from sample k to sample k + 1
InSegment(k) == SamplePressure(k) <= lookup.P /\ lookup.P <= SamplePressure(k + 1)
\* C26: for samples in rising order of pressure the spline's value at a
\* pressure inside a segment lies between the T0 of the segment's two
\* samples.
SplineWithinSegment ==
  Fitted("spline") /\ AscendingPressures =>
    \A k \in Samples :
      k < Len(lookup.points) /\ InSegment(k) =>
        /\ Min2(SampleT0(k), SampleT0(k + 1)) <= lookup.T0
        /\ lookup.T0 <= Max2(SampleT0(k), SampleT0(k + 1))
\* a value strictly between the two samples of a segment that follows a
\* much flatter one
SplineLookedUpAfterStep ==
  /\ Fitted("spline")
  /\ AscendingPressures
  /\ Len(lookup.points) = 4
  /\ SamplePressure(2) < lookup.P
  /\ lookup.P < SamplePressure(3)
  /\ SampleT0(3) - SampleT0(2) > 50 * (SampleT0(2) - SampleT0(1))
  /\ SampleT0(2) < lookup.T0
  /\ lookup.T0 < SampleT0(3)

(***************************************************************************)
(* Properties of the stored sweep: order, balance, the first step.         *)
(***************************************************************************)
\* the stored sweep is of a built-in gas (beta < 0) and an initial salinity
\* of the open interval (0, 100)
BuiltinSweepStored ==
  /\ HasResult
  /\ currentCalculationData.gasKey \in BuiltinGasKeys
  /\ currentCalculationData.beta < 0
  /\ currentCalculationData.initialSalinity > 0
  /\ currentCalculationData.initialSalinity < 100 * SCALE

\* C27: in the stored sweep of a built-in gas with an initial salinity in
\* (0, 100) the MAS values do not fall from one point to the next, and
\* neither do the MWY values.
MasNonDecreasing ==
  BuiltinSweepStored =>
    \A k \in 1 .. (Emitted - 1) :
      /\ currentCalculationData.masValues[k] <= currentCalculationData.masValues[k + 1]
      /\ currentCalculationData.mwyValues[k] <= currentCalculationData.mwyValues[k + 1]
\* a sweep of 50 points whose MAS and MWY rise from the first to the last
RisingSweepStored ==
  /\ BuiltinSweepStored
  /\ Emitted = nPoints
  /\ currentCalculationData.masValues[1] < currentCalculationData.masValues[nPoints]
  /\ currentCalculationData.mwyValues[1] < currentCalculationData.mwyValues[nPoints]

\* C29: in every point of the stored sweep the water that remains in the
\* solution and the water in the hydrate add up to the initial water, which
\* is 100 g less the initial salinity, and the recorded maximum pure water
\* yield is the water in the hydrate as a percentage of the initial water:
\* the two MWY columns agree to the resolution of the arithmetic.
WaterConserved ==
  HasResult =>
    \A k \in 1 .. Emitted :
      LET d == currentCalculationData
      IN  /\ d.waterGValues[k] = 100 * SCALE - d.initialSalinity
          /\ FAdd(d.waterSolutionGValues[k], d.waterHydrateGValues[k])
               = d.waterGValues[k]
          /\ d.maxPureWaterYieldValues[k]
               = FMul(FDiv(d.waterHydrateGValues[k], d.waterGValues[k]), 100 * SCALE)
          /\ FAbs(FSub(d.maxPureWaterYieldValues[k], d.mwyValues[k])) <= MwyTolerance
\* a sweep of 50 points of a salted solution, part of whose water is in the
\* hydrate and part in the solution at the last point
WaterSharedOut ==
  /\ HasResult
  /\ Emitted = nPoints
  /\ currentCalculationData.initialSalinity > 0
  /\ currentCalculationData.waterHydrateGValues[nPoints] > 0
  /\ currentCalculationData.waterSolutionGValues[nPoints] > 0
  /\ currentCalculationData.mwyValues[nPoints] > 0

\* the first pass of a sweep from zero extra supercooling has run
ZeroStepDone == "point" \in DOMAIN roundTrip /\ roundTrip.converted
\* 1.1, the upper end of the solver's bracket after its last growth
BracketEnd == Wide(FALSE, <<0, 0, 1000, 1>>)
\* what 12 decimals resolve of ln(a_w) (10^-8) and of MWY (10^-4 %) after
\* the products with beta, which is of the order of 10^-3
LnawResolution == Wide(FALSE, <<0, 1>>)
MwyResolution == Wide(FALSE, <<0, 0, 1>>)
\* the pass emits a point whose ln(a_w) is that of the initial salinity,
\* whose MAS is the initial salinity and whose MWY is 0
ZeroStepConsistent ==
  /\ roundTrip.point.emitted
  /\ WideWithin(roundTrip.point.lnawMas, roundTrip.point.lnaw_init, LnawResolution)
  /\ WideWithin(roundTrip.point.mas, WFromMicro(roundTrip.initialSalinity),
                WideMillionth)
  /\ WideWithin(roundTrip.point.mwy, WZero, MwyResolution)
\* the mole fraction of the initial salinity lies in the solver's bracket
InitialXInBracket ==
  /\ "X_init" \in DOMAIN roundTrip.point
  /\ ~WAbsGt(roundTrip.point.X_init, BracketEnd)

\* C30 as stated: for a built-in gas and every initial salinity of (0, 100)
\* the step at zero extra supercooling has the ln(a_w) of the initial
\* salinity, a MAS equal to the initial salinity and an MWY of 0.
ZeroStepReturnsInitialSalinity == ZeroStepDone => ZeroStepConsistent
\* C30: for a built-in gas and an initial salinity of (0, 100) whose mole
\* fraction X is at most 1.1, the upper end of the solver's bracket, the
\* step at zero extra supercooling is emitted with the ln(a_w) of the initial
\* salinity, a MAS equal to the initial salinity (within 10^-6 wt%) and an
\* MWY of 0 (within 10^-4 %).
ZeroStepReturnsSalinityInBracket ==
  ZeroStepDone /\ InitialXInBracket => ZeroStepConsistent
\* the step for 89 wt% of MgCl2, whose mole fraction lies between 1 and 1.1,
\* in the last bracket the solver grows
ZeroStepInLastBracket ==
  /\ ZeroStepDone
  /\ roundTrip.saltKey = "MgCl2"
  /\ roundTrip.initialSalinity = K(89, 0)
  /\ InitialXInBracket
  /\ WAbsGt(roundTrip.point.X_init, WOne)
  /\ roundTrip.point.emitted

(***************************************************************************)
(* Properties of calculations one after another.                           *)
(***************************************************************************)
FailureAlerts == {AlertInput, AlertT0, AlertNoPoints}
\* C28: a calculation that fails (a field that is no number, a T0 that is
\* not finite, no point emitted) leaves the stored result as it was; the
\* stored result changes only when a calculation succeeds, and then to the
\* result of that calculation.
FailedRequestKeepsResult ==
  [][/\ alerted' \in FailureAlerts => currentCalculationData' = currentCalculationData
     /\ currentCalculationData' # currentCalculationData =>
          /\ alerted' = ""
          /\ lookup' # NoLookup
          /\ currentCalculationData' = SweepOf(mainForm, lookup'.T0)]_vars
\* a result is stored, a later calculation found no T0, and the form no
\* longer holds the request of the stored result
ResultKeptAfterFailure ==
  /\ HasResult
  /\ alerted = AlertT0
  /\ mainForm.gasSelect = "Custom"
  /\ currentCalculationData.gasKey = "CH4"
  /\ currentCalculationData.dtExtraMax > 5 * SCALE

=========================================================================
